---- MODULE Spec2Model ----
(***************************************************************************)
(* Model of the zynthian audio file player (zynaudioplayer.c): the ring    *)
(* buffer between the file reader thread and the JACK process callback,    *)
(* the file reader thread, the process callback and the control API.       *)
(*                                                                         *)
(* An audio frame is the pair of samples stored at one index of dataA and  *)
(* dataB; the two arrays are always indexed together, so a frame is one    *)
(* value here.  0 is a zeroed (silent) slot, a positive number names a     *)
(* frame.                                                                  *)
(***************************************************************************)
EXTENDS Integers, Sequences, FiniteSets, TLC

\* #define AUDIO_BUFFER_SIZE 50000, scaled down
AUDIO_BUFFER_SIZE == 1
\* #define RING_BUFFER_SIZE AUDIO_BUFFER_SIZE * 2
RING_BUFFER_SIZE == AUDIO_BUFFER_SIZE * 2
\* float dataA[RING_BUFFER_SIZE * 2]
DataIndex == 0 .. (RING_BUFFER_SIZE * 2 - 1)

\* Largest size argument of one ringBufferPush / ringBufferPop call
MaxCall == 2
\* Frames offered to ringBufferPush between two resets
MaxFrames == 4

\* Longest file, in frames
MaxFile == 3
\* Largest position setPosition is given, in frames
MaxPos == 1
\* Largest nFrames of one process callback
MaxPeriod == 2
\* API calls and MIDI events in one run
MaxCalls == 3

\* enum playState
STOPPED == 0
STARTING == 1
PLAYING == 2
STOPPING == 3

\* enum seekState
IDLE == 0
SEEKING == 1
LOADING == 2

\* size_t g_nLastFrame = -1: no index of the ring buffer
NoLastFrame == -1

Min(a, b) == IF a < b THEN a ELSE b

(***************************************************************************)
(* Ring buffer: pure functions of the struct RING_BUFFER value.            *)
(***************************************************************************)

\* ringBufferInit: memset clears the first RING_BUFFER_SIZE floats only
ringBufferInit(buffer) ==
    [front |-> 0, back |-> 0, size |-> RING_BUFFER_SIZE,
     dataA |-> [i \in DataIndex |->
                  IF i < RING_BUFFER_SIZE THEN 0 ELSE buffer.dataA[i]]]

\* The zero-initialised global g_ringBuffer
ZeroBuffer == [front |-> 0, back |-> 0, size |-> 0,
               dataA |-> [i \in DataIndex |-> 0]]

ringBufferGetFreeGE(buffer) ==
    IF buffer.front >= buffer.back
    THEN buffer.front - buffer.back
    ELSE buffer.size - buffer.back + buffer.front

ringBufferGetFree(buffer) ==
    IF buffer.front > buffer.back
    THEN buffer.front - buffer.back
    ELSE buffer.size - buffer.back + buffer.front

ringBufferGetUsed(buffer) ==
    IF buffer.back >= buffer.front
    THEN buffer.back - buffer.front
    ELSE buffer.size - buffer.front + buffer.back

(***************************************************************************)
(* ringBufferPush, one step at a time.  p is the state of one call:        *)
(* pc, count, size (the argument) and dataA (the frames offered).  Each    *)
(* step makes at most one access to the shared indices or storage.         *)
(***************************************************************************)
PushEntry(dataA, size) ==
    [pc |-> "entry", count |-> 0, size |-> size, dataA |-> dataA]

PushIdle == [pc |-> "idle", count |-> 0, size |-> 0, dataA |-> <<>>]

\* the store buffer->dataA[buffer->back] = *(dataA + count++)
PushStore(buffer, p) ==
    [buffer EXCEPT !.dataA[buffer.back] = p.dataA[p.count + 1]]

PushStep(buffer, p) ==
    CASE p.pc = "entry" ->
           \* if(buffer->back < buffer->front)
           [buffer |-> buffer,
            p |-> [p EXCEPT !.pc = IF buffer.back < buffer.front
                                   THEN "for1" ELSE "for2"]]
      [] p.pc = "for1" ->
           \* for(; back < front; ++back) { if(count >= size) break;
           [buffer |-> buffer,
            p |-> [p EXCEPT !.pc = IF buffer.back < buffer.front
                                      /\ p.count < p.size
                                   THEN "store1" ELSE "ret"]]
      [] p.pc = "store1" ->
           [buffer |-> PushStore(buffer, p),
            p |-> [p EXCEPT !.pc = "inc1", !.count = @ + 1]]
      [] p.pc = "inc1" ->
           [buffer |-> [buffer EXCEPT !.back = @ + 1],
            p |-> [p EXCEPT !.pc = "for1"]]
      [] p.pc = "for2" ->
           \* for(; back < size; ++back) { if(count >= size) break;
           [buffer |-> buffer,
            p |-> [p EXCEPT !.pc = IF buffer.back < buffer.size
                                      /\ p.count < p.size
                                   THEN "store2" ELSE "check"]]
      [] p.pc = "store2" ->
           [buffer |-> PushStore(buffer, p),
            p |-> [p EXCEPT !.pc = "inc2", !.count = @ + 1]]
      [] p.pc = "inc2" ->
           [buffer |-> [buffer EXCEPT !.back = @ + 1],
            p |-> [p EXCEPT !.pc = "for2"]]
      [] p.pc = "check" ->
           \* if(count < size) for(buffer->back = 0; ...
           IF p.count < p.size
           THEN [buffer |-> [buffer EXCEPT !.back = 0],
                 p |-> [p EXCEPT !.pc = "for3"]]
           ELSE [buffer |-> buffer, p |-> [p EXCEPT !.pc = "ret"]]
      [] p.pc = "for3" ->
           [buffer |-> buffer,
            p |-> [p EXCEPT !.pc = IF buffer.back < buffer.front
                                      /\ p.count < p.size
                                   THEN "store3" ELSE "ret"]]
      [] p.pc = "store3" ->
           [buffer |-> PushStore(buffer, p),
            p |-> [p EXCEPT !.pc = "inc3", !.count = @ + 1]]
      [] p.pc = "inc3" ->
           [buffer |-> [buffer EXCEPT !.back = @ + 1],
            p |-> [p EXCEPT !.pc = "for3"]]
      [] OTHER -> [buffer |-> buffer, p |-> p]

\* A step that stores a frame
PushStores(p) == p.pc \in {"store1", "store2", "store3"}

RECURSIVE PushRun(_, _)
PushRun(buffer, p) ==
    IF p.pc = "ret" THEN [buffer |-> buffer, count |-> p.count]
    ELSE LET s == PushStep(buffer, p) IN PushRun(s.buffer, s.p)

\* One whole call, run without interruption: [buffer, count]
ringBufferPush(buffer, dataA, size) == PushRun(buffer, PushEntry(dataA, size))

(***************************************************************************)
(* ringBufferPop, one step at a time.  q.dataA is the caller's output      *)
(* buffer, filled from index 0.                                            *)
(***************************************************************************)
PopEntry(size) == [pc |-> "entry", count |-> 0, size |-> size, dataA |-> <<>>]

PopIdle == [pc |-> "idle", count |-> 0, size |-> 0, dataA |-> <<>>]

\* The slot a load step reads: the second leg of the wrapped branch reads
\* buffer->dataA[buffer->back]
PopSlot(buffer, q) == IF q.pc = "load3" THEN buffer.back ELSE buffer.front

PopLoad(buffer, q) ==
    [q EXCEPT !.dataA = Append(@, buffer.dataA[PopSlot(buffer, q)]),
              !.count = @ + 1]

PopStep(buffer, q) ==
    CASE q.pc = "entry" ->
           \* if(buffer->back == buffer->front) return 0;
           [buffer |-> buffer,
            q |-> [q EXCEPT !.pc = IF buffer.back = buffer.front
                                   THEN "ret" ELSE "branch"]]
      [] q.pc = "branch" ->
           \* if(buffer->back > buffer->front)
           [buffer |-> buffer,
            q |-> [q EXCEPT !.pc = IF buffer.back > buffer.front
                                   THEN "for1" ELSE "for2"]]
      [] q.pc = "for1" ->
           [buffer |-> buffer,
            q |-> [q EXCEPT !.pc = IF buffer.back > buffer.front
                                      /\ q.count < q.size
                                   THEN "load1" ELSE "ret"]]
      [] q.pc = "load1" ->
           [buffer |-> buffer, q |-> [PopLoad(buffer, q) EXCEPT !.pc = "inc1"]]
      [] q.pc = "inc1" ->
           [buffer |-> [buffer EXCEPT !.front = @ + 1],
            q |-> [q EXCEPT !.pc = "for1"]]
      [] q.pc = "for2" ->
           [buffer |-> buffer,
            q |-> [q EXCEPT !.pc = IF buffer.front < buffer.size
                                      /\ q.count < q.size
                                   THEN "load2" ELSE "check"]]
      [] q.pc = "load2" ->
           [buffer |-> buffer, q |-> [PopLoad(buffer, q) EXCEPT !.pc = "inc2"]]
      [] q.pc = "inc2" ->
           [buffer |-> [buffer EXCEPT !.front = @ + 1],
            q |-> [q EXCEPT !.pc = "for2"]]
      [] q.pc = "check" ->
           \* if (count < size) for(buffer->front = 0; ...
           IF q.count < q.size
           THEN [buffer |-> [buffer EXCEPT !.front = 0],
                 q |-> [q EXCEPT !.pc = "for3"]]
           ELSE [buffer |-> buffer, q |-> [q EXCEPT !.pc = "ret"]]
      [] q.pc = "for3" ->
           \* for(...; buffer->front <= buffer->back; ++buffer->front)
           [buffer |-> buffer,
            q |-> [q EXCEPT !.pc = IF buffer.front <= buffer.back
                                      /\ q.count < q.size
                                   THEN "load3" ELSE "ret"]]
      [] q.pc = "load3" ->
           [buffer |-> buffer, q |-> [PopLoad(buffer, q) EXCEPT !.pc = "inc3"]]
      [] q.pc = "inc3" ->
           [buffer |-> [buffer EXCEPT !.front = @ + 1],
            q |-> [q EXCEPT !.pc = "for3"]]
      [] OTHER -> [buffer |-> buffer, q |-> q]

PopLoads(q) == q.pc \in {"load1", "load2", "load3"}

RECURSIVE PopRun(_, _)
PopRun(buffer, q) ==
    IF q.pc = "ret"
    THEN [buffer |-> buffer, count |-> q.count, dataA |-> q.dataA]
    ELSE LET s == PopStep(buffer, q) IN PopRun(s.buffer, s.q)

\* One whole call, run without interruption: [buffer, count, dataA]
ringBufferPop(buffer, size) == PopRun(buffer, PopEntry(size))

(***************************************************************************)
(* State.                                                                  *)
(***************************************************************************)
VARIABLES
    g_ringBuffer,   \* struct RING_BUFFER g_ringBuffer
    push,           \* the ringBufferPush call in progress (producer thread)
    pop,            \* the ringBufferPop call in progress (consumer thread)
    absQ,           \* history: <<slot, frame>> stored by push, not yet popped
    nextId,         \* history: the next frame the producer offers
    overwrote,      \* history: a push stored over an unread frame
    popStale,       \* history: a pop loaded a slot holding no unread frame
    fifoBroken,     \* history: a pop returned a frame out of order
    g_bFileOpen,    \* 1 whilst file is open
    g_bMore,        \* 1 if there is more data to read from file
    g_nSeek,        \* seek state
    g_nPlayState,   \* play state
    g_bLoop,        \* 1 to loop at end of song
    g_nPlaybackPosFrames,
    g_nLastFrame,   \* ring buffer index of the last frame, or NoLastFrame
    g_sFilename,    \* <<>> is the empty string
    g_sf_info,      \* g_sf_info.frames
    g_threadFile,   \* the reader thread: "none", "running", "exited", "joined"
    ft,             \* fileThread: its position and locals
    ctl,            \* the control thread: the API call in progress
    pending,        \* history: frames pushed since the last reset, not yet output
    garbled,        \* history: a frame was lost, or output that was not pending
    note,           \* history: what happened since the last control call began:
                    \* "opened", "openfail", "eof", or "none"
    loopHeld,       \* history: "none", "held", "broken" (see FtRead)
    stale,          \* history: frames at the head of pending that were in the
                    \* ring buffer when the last setPosition during playback
                    \* wrote Seeking
    staleOut,       \* history: such a frame was output with seek state Idle
    stopReq,        \* history: "asked" from stopPlayback's write until the next
                    \* start or callback, then "served" or "missed"
    nCalls          \* history: API calls and MIDI events so far

rbVars == <<push, pop, absQ, nextId, overwrote, popStale, fifoBroken>>

flagVars == <<g_bFileOpen, g_bMore, g_nSeek, g_nPlayState, g_bLoop,
              g_nPlaybackPosFrames, g_nLastFrame, g_sFilename, g_sf_info>>

histVars == <<pending, garbled, note, loopHeld, stale, staleOut, stopReq,
              nCalls>>

playerVars == <<g_bFileOpen, g_bMore, g_nSeek, g_nPlayState, g_bLoop,
                g_nPlaybackPosFrames, g_nLastFrame, g_sFilename, g_sf_info,
                g_threadFile, ft, ctl, pending, garbled, note, loopHeld,
                stale, staleOut, stopReq, nCalls>>

\* The mixer (zynmixer/mixer.c)
VARIABLES
    g_channelStrips,  \* struct channel_strip* g_channelStrips[MAX_CHANNELS]
    g_mixbusStrips,   \* struct channel_strip* g_mixbusStrips[MAX_CHANNELS]
    g_fxSends,        \* struct fx_send* g_fxSends[MAX_CHANNELS]
    g_solo,           \* True if any channel solo enabled
    g_bOsc,           \* True if OSC client subscribed
    g_oscClient,      \* the registered OSC client addresses, 0 is none
    g_buffersize,     \* frames of one period
    g_mainNoramliseBuffer,  \* <<A, B>> of each frame
    mutex,            \* who holds the mutex: "free", "rt0", "rt1", "api"
    jackPorts,        \* the ports registered with the JACK server
    jackConnected,    \* the registered ports that have a connection
    portBuffer,       \* the JACK buffers of the strips' output ports
    rt,               \* the process callback of each tier: position, locals
    api,              \* the control thread: the API call in progress
    ev,               \* eventThreadFn: its position and locals
    running,          \* init() has activated the clients and the thread
    crashed,          \* the process has died on an invalid access
    hazard,           \* history: "rt", "ev" when that thread read a strip
                      \* that removeStrip had unregistered or freed;
                      \* "dangling" when addStrip left a freed strip in a slot
    period,           \* history: the last period processed on each tier
    shaping,          \* one sample on its way through the shaping of a strip
    g_nDampingCount,  \* callbacks left until the meters are damped again
    g_nHoldCount,     \* callbacks left until the peak holds are refreshed
    jackOut           \* the player's output port buffer and what lies behind it

mixVars == <<g_channelStrips, g_mixbusStrips, g_fxSends, g_solo, g_bOsc,
             g_oscClient, g_buffersize, g_mainNoramliseBuffer, mutex,
             jackPorts, jackConnected, portBuffer, rt, api, ev, running,
             crashed, hazard, period, shaping, g_nDampingCount, g_nHoldCount,
             jackOut>>

meterVars == <<g_nDampingCount, g_nHoldCount>>

zynaudioplayerVars ==
    <<g_ringBuffer, push, pop, absQ, nextId, overwrote, popStale,
      fifoBroken, g_bFileOpen, g_bMore, g_nSeek, g_nPlayState, g_bLoop,
      g_nPlaybackPosFrames, g_nLastFrame, g_sFilename, g_sf_info,
      g_threadFile, ft, ctl, pending, garbled, note, loopHeld,
      stale, staleOut, stopReq, nCalls>>

vars == <<zynaudioplayerVars, mixVars>>

(***************************************************************************)
(* The mixer (zynmixer/mixer.c): its constants, the arithmetic of its      *)
(* samples and gains, and the state the loader leaves.                     *)
(*                                                                         *)
(* A float is an exact fraction <<numerator, denominator>> in lowest terms *)
(* with a positive denominator: rounding is left out, and no product of    *)
(* finite values is infinite, so the isinf() branches are never taken.     *)
(* A stereo sample is the pair <<A, B>> of its legs.  A pointer is the     *)
(* object it points to; its mem field is "null" for a NULL pointer,        *)
(* "live" for allocated memory and "freed" for a pointer left dangling.    *)
(***************************************************************************)
\* #define MAX_CHANNELS 32, scaled down
MAX_CHANNELS == 2
\* #define MAX_OSC_CLIENTS 5, scaled down
MAX_OSC_CLIENTS == 2
\* static uint8_t CHANNEL, MIXBUS
CHANNEL == 0
MIXBUS == 1

Chans == 0 .. (MAX_CHANNELS - 1)
Tiers == {CHANNEL, MIXBUS}

Abs(n) == IF n < 0 THEN 0 - n ELSE n

RECURSIVE Gcd(_, _)
Gcd(a, b) == IF b = 0 THEN a ELSE Gcd(b, a % b)

\* the fraction n / d in lowest terms (d > 0)
Frac(n, d) ==
    IF n = 0 THEN <<0, 1>>
    ELSE LET g == Gcd(Abs(n), d) IN <<n \div g, d \div g>>

Zero == <<0, 1>>
One == <<1, 1>>
FAdd(x, y) == Frac(x[1] * y[2] + y[1] * x[2], x[2] * y[2])
FSub(x, y) == Frac(x[1] * y[2] - y[1] * x[2], x[2] * y[2])
FMul(x, y) == Frac(x[1] * y[1], x[2] * y[2])
\* x / n for a positive integer n
FDiv(x, n) == Frac(x[1], x[2] * n)
FNeg(x) == <<0 - x[1], x[2]>>

\* n frames of silence
Silence(n) == [frame \in 1 .. n |-> <<Zero, Zero>>]

\* the strip addStrip allocates and initialises
NewStrip ==
    [mem |-> "live", level |-> Zero, reqlevel |-> <<4, 5>>,
     balance |-> Zero, reqbalance |-> Zero, mute |-> 0, solo |-> 0,
     mono |-> 0, ms |-> 0, phase |-> 0, normalise |-> 0, inRouted |-> 0,
     outRouted |-> 0, send |-> [send \in Chans |-> Zero], enable_dpm |-> 1]

NullStrip == [NewStrip EXCEPT !.mem = "null"]

NullSend == [mem |-> "null", level |-> Zero, buffer |-> <<>>]

\* the ports of a strip, and of a send (which come after the two tiers)
StripPorts(mixbus, chan) ==
    {<<mixbus, chan, name>> : name \in {"inA", "inB", "outA", "outB"}}

SendPorts(send) == {<<MIXBUS + 1, send, name>> : name \in {"outA", "outB"}}

strips(mixbus) == IF mixbus = MIXBUS THEN g_mixbusStrips ELSE g_channelStrips

RtIdle == [pc |-> "idle", chan |-> MAX_CHANNELS, stale |-> FALSE]

ApiIdle == [pc |-> "idle", op |-> "none", mixbus |-> 0, chan |-> 0,
            ret |-> 0, failed |-> FALSE, before |-> <<>>, calls |-> 0]

EvIdle == [pc |-> "idle", mixbus |-> 0, chan |-> 0, stale |-> FALSE]

NoPeriod == [frames |-> 0, runs |-> 0]

\* no sample is being shaped
NoShaping ==
    [strip |-> [phase |-> 0, ms |-> 0, mono |-> 0],
     pIn |-> <<Zero, Zero>>, fSample |-> <<Zero, Zero>>, passes |-> 0]

\* The mixer's globals as the loader leaves them and init() finds them
MixerLoaded ==
    /\ g_channelStrips = [chan \in Chans |-> NullStrip]
    /\ g_mixbusStrips = [chan \in Chans |-> NullStrip]
    /\ g_fxSends = [chan \in Chans |-> NullSend]
    /\ g_solo = 0
    /\ g_bOsc = 0
    /\ g_oscClient = [i \in 0 .. (MAX_OSC_CLIENTS - 1) |-> 0]
    /\ g_buffersize = 1
    /\ g_mainNoramliseBuffer = <<>>
    /\ mutex = "free"
    /\ jackPorts = {}
    /\ jackConnected = {}
    /\ portBuffer = [mixbus \in Tiers |-> [chan \in Chans |-> <<>>]]
    /\ rt = [mixbus \in Tiers |-> RtIdle]
    /\ api = ApiIdle
    /\ ev = EvIdle
    /\ running = FALSE
    /\ crashed = FALSE
    /\ hazard = {}
    /\ period = [mixbus \in Tiers |-> NoPeriod]
    /\ shaping = NoShaping
    /\ g_nDampingCount = 0
    /\ g_nHoldCount = 0
    /\ jackOut = <<>>

\* The globals as the loader leaves them and init() finds them
InitGlobals ==
    /\ g_bFileOpen = 0
    /\ g_bMore = 0
    /\ g_nSeek = IDLE
    /\ g_nPlayState = STOPPED
    /\ g_bLoop = 0
    /\ g_nPlaybackPosFrames = 0
    /\ g_nLastFrame = NoLastFrame
    /\ g_sFilename = <<>>
    /\ g_sf_info = 0
    /\ g_threadFile = "none"
    /\ ft = [pc |-> "none", cursor |-> 0, nNewPos |-> 0, nRead |-> 0,
             pBufferOut |-> <<>>, offset |-> 0]
    /\ ctl = [pc |-> "idle", ret |-> "idle"]
    /\ pending = <<>>
    /\ garbled = FALSE
    /\ note = "none"
    /\ loopHeld = "none"
    /\ stale = 0
    /\ staleOut = FALSE
    /\ stopReq = "none"
    /\ nCalls = 0

QSlots(q) == {q[i][1] : i \in 1 .. Len(q)}

RECURSIVE Frames(_, _)
\* the frames first, first + 1, ... (n of them)
Frames(first, n) == IF n = 0 THEN <<>> ELSE <<first>> \o Frames(first + 1, n - 1)

(***************************************************************************)
(* The ring buffer driven by one producer and one consumer whose calls     *)
(* interleave step by step (SpecRB).                                       *)
(***************************************************************************)
InitRB ==
    /\ g_ringBuffer = ringBufferInit(ZeroBuffer)
    /\ push = PushIdle
    /\ pop = PopIdle
    /\ absQ = <<>>
    /\ nextId = 1
    /\ overwrote = FALSE
    /\ popStale = FALSE
    /\ fifoBroken = FALSE
    /\ InitGlobals
    /\ MixerLoaded

\* The producer calls ringBufferPush with size frames
PushCall(size) ==
    /\ push.pc = "idle"
    /\ nextId + size - 1 <= MaxFrames
    /\ push' = PushEntry(Frames(nextId, size), size)
    /\ UNCHANGED <<g_ringBuffer, pop, absQ, nextId, overwrote, popStale,
                   fifoBroken>>
    /\ UNCHANGED <<playerVars, mixVars>>

\* One step of the call in progress
PushAdvance ==
    /\ push.pc \notin {"idle", "ret"}
    /\ LET s == PushStep(g_ringBuffer, push)
           slot == g_ringBuffer.back
       IN /\ g_ringBuffer' = s.buffer
          /\ push' = s.p
          /\ IF PushStores(push)
             THEN /\ absQ' = Append(absQ, <<slot, push.dataA[push.count + 1]>>)
                  /\ overwrote' = (overwrote \/ slot \in QSlots(absQ)
                                     \/ Len(absQ) >= g_ringBuffer.size)
             ELSE UNCHANGED <<absQ, overwrote>>
    /\ UNCHANGED <<pop, nextId, popStale, fifoBroken>>
    /\ UNCHANGED <<playerVars, mixVars>>

\* The call returns count; the frames not accepted are offered again
PushReturn ==
    /\ push.pc = "ret"
    /\ nextId' = nextId + push.count
    /\ push' = PushIdle
    /\ UNCHANGED <<g_ringBuffer, pop, absQ, overwrote, popStale, fifoBroken>>
    /\ UNCHANGED <<playerVars, mixVars>>

\* The consumer calls ringBufferPop for size frames
PopCall(size) ==
    /\ pop.pc = "idle"
    /\ pop' = PopEntry(size)
    /\ UNCHANGED <<g_ringBuffer, push, absQ, nextId, overwrote, popStale,
                   fifoBroken>>
    /\ UNCHANGED <<playerVars, mixVars>>

PopAdvance ==
    /\ pop.pc \notin {"idle", "ret"}
    /\ LET s == PopStep(g_ringBuffer, pop)
           slot == PopSlot(g_ringBuffer, pop)
       IN /\ g_ringBuffer' = s.buffer
          /\ pop' = s.q
          /\ IF PopLoads(pop)
             THEN /\ popStale' = (popStale \/ absQ = <<>>
                                    \/ slot \notin QSlots(absQ))
                  /\ fifoBroken' = (fifoBroken \/ absQ = <<>>
                                      \/ absQ[1][2] # g_ringBuffer.dataA[slot])
                  /\ absQ' = IF absQ = <<>> THEN absQ ELSE Tail(absQ)
             ELSE UNCHANGED <<absQ, popStale, fifoBroken>>
    /\ UNCHANGED <<push, nextId, overwrote>>
    /\ UNCHANGED <<playerVars, mixVars>>

PopReturn ==
    /\ pop.pc = "ret"
    /\ pop' = PopIdle
    /\ UNCHANGED <<g_ringBuffer, push, absQ, nextId, overwrote, popStale,
                   fifoBroken>>
    /\ UNCHANGED <<playerVars, mixVars>>

\* ringBufferInit while neither side is inside a call
ResetRB ==
    /\ push.pc = "idle"
    /\ pop.pc = "idle"
    /\ nextId > 1
    /\ g_ringBuffer' = ringBufferInit(g_ringBuffer)
    /\ absQ' = <<>>
    /\ nextId' = 1
    /\ overwrote' = FALSE
    /\ popStale' = FALSE
    /\ fifoBroken' = FALSE
    /\ UNCHANGED <<push, pop>>
    /\ UNCHANGED <<playerVars, mixVars>>

NextRB ==
    \/ \E size \in 1 .. MaxCall : PushCall(size)
    \/ PushAdvance
    \/ PushReturn
    \/ \E size \in 1 .. MaxCall : PopCall(size)
    \/ PopAdvance
    \/ PopReturn
    \/ ResetRB

SpecRB == InitRB /\ [][NextRB]_vars

RBQuiescent == push.pc = "idle" /\ pop.pc = "idle"

\* C1: ringBufferPush never stores a frame into a slot that holds an unread
\* frame, and stores nothing when no slot is free.
C1_PushNeverOverwrites == overwrote = FALSE

\* C2: ringBufferPop only loads slots that hold an unread frame, so it never
\* returns more frames than are unread and never passes the write index.
C2_PopOnlyUnread == popStale = FALSE

\* C3: the frames popped are a prefix of the frames accepted, in order, and
\* between calls ringBufferGetUsed is the number of frames accepted and not
\* yet popped.
C3_RefinesFifo ==
    /\ fifoBroken = FALSE
    /\ RBQuiescent => ringBufferGetUsed(g_ringBuffer) = Len(absQ)

\* C4: used + free = capacity at every observation point.
C4_UsedPlusFree ==
    ringBufferGetUsed(g_ringBuffer) + ringBufferGetFree(g_ringBuffer)
        = g_ringBuffer.size

C4_Witness ==
    /\ g_ringBuffer.front > g_ringBuffer.back
    /\ absQ # <<>>
    /\ RBQuiescent

(***************************************************************************)
(* The player: fileThread, onJackProcess and the control API (Spec).       *)
(* The source file has one channel and the engine's sample rate, so        *)
(* src_ratio = 1.0 and position p is source frame p.  A path is            *)
(* <<"audio", n>>, a readable file of n frames, or <<"bad", 0>>, which     *)
(* sf_open refuses.  Frame i of a file is the number i (1 .. n).           *)
(* ringBufferPush of one frame and ringBufferPop run without interruption  *)
(* here; SpecRB interleaves their steps.                                   *)
(***************************************************************************)
Paths == {<<"audio", n>> : n \in 0 .. MaxFile} \cup {<<"bad", 0>>}

Readable(path) == path # <<>> /\ path[1] = "audio"

\* nMaxRead = AUDIO_BUFFER_SIZE / channels
nMaxRead == AUDIO_BUFFER_SIZE

FtAt(pc) == g_threadFile = "running" /\ ft.pc = pc

FtGoto(pc) == ft' = [ft EXCEPT !.pc = pc]

\* sf_open: the thread exits when it fails
FtOpen ==
    /\ FtAt("open")
    /\ IF Readable(g_sFilename)
       THEN /\ g_sf_info' = g_sFilename[2]
            /\ ft' = [ft EXCEPT !.pc = "setopen", !.cursor = 0]
            /\ UNCHANGED <<g_threadFile, note>>
       ELSE /\ g_threadFile' = "exited"
            /\ ft' = [ft EXCEPT !.pc = "none"]
            /\ note' = IF note = "opened" THEN "openfail" ELSE note
            /\ UNCHANGED g_sf_info
    /\ UNCHANGED <<mixVars, g_ringBuffer, rbVars, g_bFileOpen, g_bMore, g_nSeek,
                   g_nPlayState, g_bLoop, g_nPlaybackPosFrames, g_nLastFrame,
                   g_sFilename, ctl, pending, garbled, loopHeld, stale,
                   staleOut, stopReq, nCalls>>

\* g_bFileOpen = 1
FtSetOpen ==
    /\ FtAt("setopen")
    /\ g_bFileOpen' = 1
    /\ FtGoto("init")
    /\ UNCHANGED <<mixVars, g_ringBuffer, rbVars, g_bMore, g_nSeek, g_nPlayState,
                   g_bLoop, g_nPlaybackPosFrames, g_nLastFrame, g_sFilename,
                   g_sf_info, g_threadFile, ctl, histVars>>

\* g_bMore = 1; g_nSeek = SEEKING; g_nPlaybackPosFrames = 0
FtInit ==
    /\ FtAt("init")
    /\ g_bMore' = 1
    /\ g_nSeek' = SEEKING
    /\ g_nPlaybackPosFrames' = 0
    /\ FtGoto("while")
    /\ UNCHANGED <<mixVars, g_ringBuffer, rbVars, g_bFileOpen, g_nPlayState, g_bLoop,
                   g_nLastFrame, g_sFilename, g_sf_info, g_threadFile, ctl,
                   histVars>>

\* while(g_bFileOpen)
FtWhile ==
    /\ FtAt("while")
    /\ FtGoto(IF g_bFileOpen # 0 THEN "seektest" ELSE "close")
    /\ UNCHANGED <<mixVars, g_ringBuffer, rbVars, flagVars, g_threadFile, ctl, histVars>>

\* if(g_nSeek)
FtSeekTest ==
    /\ FtAt("seektest")
    /\ FtGoto(IF g_nSeek # 0 THEN "reset" ELSE "moretest")
    /\ UNCHANGED <<mixVars, g_ringBuffer, rbVars, flagVars, g_threadFile, ctl, histVars>>

\* ringBufferInit(&g_ringBuffer)
FtReset ==
    /\ FtAt("reset")
    /\ g_ringBuffer' = ringBufferInit(g_ringBuffer)
    /\ pending' = <<>>
    /\ garbled' = FALSE
    /\ stale' = 0
    /\ FtGoto("getpos")
    /\ UNCHANGED <<mixVars, rbVars, flagVars, g_threadFile, ctl, note, loopHeld,
                   staleOut, stopReq, nCalls>>

\* nNewPos = g_nPlaybackPosFrames / src_ratio; sf_seek(pFile, nNewPos, SEEK_SET)
\* (sf_seek past the end of the file fails and leaves the read position)
FtGetPos ==
    /\ FtAt("getpos")
    /\ ft' = [ft EXCEPT !.pc = "setloading",
                        !.nNewPos = g_nPlaybackPosFrames,
                        !.cursor = IF g_nPlaybackPosFrames <= g_sf_info
                                   THEN g_nPlaybackPosFrames ELSE @]
    /\ UNCHANGED <<mixVars, g_ringBuffer, rbVars, flagVars, g_threadFile, ctl, histVars>>

\* g_nSeek = LOADING
FtSetLoading ==
    /\ FtAt("setloading")
    /\ g_nSeek' = LOADING
    /\ FtGoto("moretest")
    /\ UNCHANGED <<mixVars, g_ringBuffer, rbVars, g_bFileOpen, g_bMore, g_nPlayState,
                   g_bLoop, g_nPlaybackPosFrames, g_nLastFrame, g_sFilename,
                   g_sf_info, g_threadFile, ctl, histVars>>

\* if(g_bMore || g_nSeek == LOADING) ... else usleep(10000)
FtMoreTest ==
    /\ FtAt("moretest")
    /\ FtGoto(IF g_bMore # 0 \/ g_nSeek = LOADING THEN "read" ELSE "while")
    /\ UNCHANGED <<mixVars, g_ringBuffer, rbVars, flagVars, g_threadFile, ctl, histVars>>

\* The more flag after a read of nRead frames
MoreAfterReadNoLoop(nRead, bLoop) == IF nRead = nMaxRead THEN 1 ELSE 0

MoreAfterRead(nRead, bLoop) ==
    IF nRead = nMaxRead THEN 1
    ELSE IF bLoop # 0 THEN 1
    ELSE 0

\* sf_readf_float and the three cases that follow it
FtRead ==
    /\ FtAt("read")
    /\ LET nRead == Min(nMaxRead, g_sf_info - ft.cursor)
           short == nRead # nMaxRead
       IN /\ ft' = [ft EXCEPT !.pc = "wait",
                              !.nRead = nRead,
                              !.pBufferOut = Frames(ft.cursor + 1, nRead),
                              !.cursor = IF short /\ g_bLoop # 0 THEN 0
                                         ELSE @ + nRead]
          /\ g_bMore' = MoreAfterRead(nRead, g_bLoop)
          /\ loopHeld' = IF ~short THEN loopHeld
                         ELSE IF g_bLoop = 0 THEN "broken"
                         ELSE IF loopHeld = "none" THEN "held"
                         ELSE loopHeld
          /\ note' = IF short /\ g_bLoop = 0 /\ g_nPlayState = PLAYING
                        /\ ~garbled /\ ctl.pc = "idle"
                        /\ g_nSeek # SEEKING
                     THEN "eof" ELSE note
    /\ UNCHANGED <<mixVars, g_ringBuffer, rbVars, g_bFileOpen, g_nSeek, g_nPlayState,
                   g_bLoop, g_nPlaybackPosFrames, g_nLastFrame, g_sFilename,
                   g_sf_info, g_threadFile, ctl, pending, garbled, stale,
                   staleOut, stopReq, nCalls>>

\* while(ringBufferGetFree(&g_ringBuffer) < nRead) { usleep(1000);
FtWait ==
    /\ FtAt("wait")
    /\ FtGoto(IF ringBufferGetFree(g_ringBuffer) < ft.nRead
              THEN "waitcheck" ELSE "pushtest")
    /\ UNCHANGED <<mixVars, g_ringBuffer, rbVars, flagVars, g_threadFile, ctl, histVars>>

\* if(g_nSeek == SEEKING || g_bFileOpen == 0) break; }
FtWaitCheck ==
    /\ FtAt("waitcheck")
    /\ FtGoto(IF g_nSeek = SEEKING \/ g_bFileOpen = 0
              THEN "pushtest" ELSE "wait")
    /\ UNCHANGED <<mixVars, g_ringBuffer, rbVars, flagVars, g_threadFile, ctl, histVars>>

\* if(g_nSeek != SEEKING && g_bFileOpen) for(offset = 0; offset < nRead; ...
FtPushTest ==
    /\ FtAt("pushtest")
    /\ ft' = [ft EXCEPT !.pc = IF g_nSeek # SEEKING /\ g_bFileOpen # 0
                                  /\ ft.nRead > 0
                               THEN "push" ELSE "mark",
                        !.offset = 0]
    /\ UNCHANGED <<mixVars, g_ringBuffer, rbVars, flagVars, g_threadFile, ctl, histVars>>

\* if(0 == ringBufferPush(&g_ringBuffer, pBufferOut + offset, ..., 1)) break;
FtPush ==
    /\ FtAt("push")
    /\ \E r \in {ringBufferPush(g_ringBuffer,
                                 <<ft.pBufferOut[ft.offset + 1]>>, 1)} :
       LET frame == ft.pBufferOut[ft.offset + 1]
           lost == Len(pending) >= RING_BUFFER_SIZE
       IN /\ g_ringBuffer' = r.buffer
          /\ ft' = [ft EXCEPT !.pc = IF r.count = 0 \/ ft.offset + 1 >= ft.nRead
                                     THEN "mark" ELSE "push",
                              !.offset = IF r.count = 0 THEN @ ELSE @ + 1]
          /\ pending' = IF r.count = 0 \/ garbled THEN pending
                        ELSE IF lost THEN <<>>
                        ELSE Append(pending, frame)
          /\ garbled' = (garbled \/ (r.count # 0 /\ lost))
          /\ stale' = IF r.count # 0 /\ lost THEN 0 ELSE stale
    /\ UNCHANGED <<mixVars, rbVars, flagVars, g_threadFile, ctl, note, loopHeld,
                   staleOut, stopReq, nCalls>>

\* if(g_bMore == 0) g_nLastFrame = g_ringBuffer.back
FtMark ==
    /\ FtAt("mark")
    /\ g_nLastFrame' = IF g_bMore = 0 THEN g_ringBuffer.back ELSE g_nLastFrame
    /\ ft' = [ft EXCEPT !.pc = "idletest", !.nRead = 0, !.pBufferOut = <<>>,
                        !.offset = 0]
    /\ UNCHANGED <<mixVars, g_ringBuffer, rbVars, g_bFileOpen, g_bMore, g_nSeek,
                   g_nPlayState, g_bLoop, g_nPlaybackPosFrames, g_sFilename,
                   g_sf_info, g_threadFile, ctl, histVars>>

\* if(g_nSeek == LOADING) ... usleep(10000)
FtIdleTest ==
    /\ FtAt("idletest")
    /\ FtGoto(IF g_nSeek = LOADING THEN "setidle" ELSE "while")
    /\ UNCHANGED <<mixVars, g_ringBuffer, rbVars, flagVars, g_threadFile, ctl, histVars>>

\* g_nSeek = IDLE
FtSetIdle ==
    /\ FtAt("setidle")
    /\ g_nSeek' = IDLE
    /\ FtGoto("while")
    /\ UNCHANGED <<mixVars, g_ringBuffer, rbVars, g_bFileOpen, g_bMore, g_nPlayState,
                   g_bLoop, g_nPlaybackPosFrames, g_nLastFrame, g_sFilename,
                   g_sf_info, g_threadFile, ctl, histVars>>

\* After the loop: sf_close, ringBufferInit, position and marker cleared, exit
FtClose ==
    /\ FtAt("close")
    /\ g_ringBuffer' = ringBufferInit(g_ringBuffer)
    /\ g_nPlaybackPosFrames' = 0
    /\ g_nLastFrame' = NoLastFrame
    /\ g_threadFile' = "exited"
    /\ ft' = [ft EXCEPT !.pc = "none", !.cursor = 0, !.nNewPos = 0]
    /\ pending' = <<>>
    /\ garbled' = FALSE
    /\ stale' = 0
    /\ UNCHANGED <<mixVars, rbVars, g_bFileOpen, g_bMore, g_nSeek, g_nPlayState,
                   g_bLoop, g_sFilename, g_sf_info, ctl, note, loopHeld,
                   staleOut, stopReq, nCalls>>

fileThread ==
    \/ FtOpen
    \/ FtSetOpen
    \/ FtInit
    \/ FtWhile
    \/ FtSeekTest
    \/ FtReset
    \/ FtGetPos
    \/ FtSetLoading
    \/ FtMoreTest
    \/ FtRead
    \/ FtWait
    \/ FtWaitCheck
    \/ FtPushTest
    \/ FtPush
    \/ FtMark
    \/ FtIdleTest
    \/ FtSetIdle
    \/ FtClose

(***************************************************************************)
(* onJackProcess.  midi is the Control Change event of the period, <<>>    *)
(* for none, else <<controller, value>>.  The callback runs as one step;   *)
(* the frames it pops are the frames it outputs (pending records them).    *)
(* The output level g_fLevel (controller 7) is not part of this state.     *)
(***************************************************************************)
MidiEvents == {<<>>} \cup {<<cc, v>> : cc \in {1, 68, 69}, v \in {0, 127}}

\* if(g_nPlayState == STARTING && g_nSeek == IDLE) g_nPlayState = PLAYING
PlayStateAtEntry ==
    IF g_nPlayState = STARTING /\ g_nSeek = IDLE THEN PLAYING ELSE g_nPlayState

\* The stop condition with the test of STOPPING left out
StopsAfterPopMarkerOnly(playState, buffer) == g_nLastFrame = buffer.front

\* if(g_nPlayState == STOPPING || g_nLastFrame == g_ringBuffer.front)
StopsAfterPop(playState, buffer) ==
    playState = STOPPING \/ g_nLastFrame = buffer.front

\* setPosition(value * getDuration() / 127), in frames
MidiPosition(value) == (value * g_sf_info) \div 127

onJackProcess(nFrames, midi) ==
    /\ midi # <<>> => nCalls < MaxCalls
    /\ \E r \in {IF PlayStateAtEntry \in {PLAYING, STOPPING}
                 THEN ringBufferPop(g_ringBuffer, nFrames)
                 ELSE [buffer |-> g_ringBuffer, count |-> 0, dataA |-> <<>>]} :
       LET entry == PlayStateAtEntry
           pops == entry \in {PLAYING, STOPPING}
           stops == pops /\ StopsAfterPop(entry, r.buffer)
           played == IF stops THEN STOPPED ELSE entry
           marker == IF stops THEN NoLastFrame ELSE g_nLastFrame
           cc == IF midi = <<>> THEN 0 ELSE midi[1]
           value == IF midi = <<>> THEN 0 ELSE midi[2]
           inOrder == /\ r.count <= Len(pending)
                      /\ r.dataA = SubSeq(pending, 1, r.count)
           broken == garbled \/ (r.count > 0 /\ ~inOrder)
           rest == IF garbled \/ r.count = 0 THEN pending
                   ELSE IF inOrder
                        THEN SubSeq(pending, r.count + 1, Len(pending))
                   ELSE <<>>
       IN /\ nCalls' = IF midi = <<>> THEN nCalls ELSE nCalls + 1
          /\ g_ringBuffer' = r.buffer
          /\ g_nLastFrame' = marker
          /\ g_nPlayState' =
               IF cc = 68 /\ value > 63 THEN STARTING
               ELSE IF cc = 68 /\ played # STOPPED THEN STOPPING
               ELSE played
          /\ g_nPlaybackPosFrames' =
               IF cc = 1 THEN MidiPosition(value) ELSE g_nPlaybackPosFrames
          /\ g_nSeek' = IF cc = 1 THEN SEEKING ELSE g_nSeek
          /\ g_bLoop' = IF cc = 69 THEN (IF value > 63 THEN 1 ELSE 0)
                        ELSE g_bLoop
          /\ g_bMore' = IF cc = 69 THEN 1 ELSE g_bMore
          /\ pending' = rest
          /\ garbled' = broken
          /\ staleOut' = (staleOut \/ (r.count > 0 /\ g_nSeek = IDLE
                                         /\ stale > 0))
          /\ stale' = IF broken THEN 0
                      ELSE IF cc = 1 /\ played = PLAYING THEN Len(rest)
                      ELSE IF stale > r.count THEN stale - r.count
                      ELSE 0
          /\ note' = IF midi = <<>> THEN note ELSE "none"
          /\ stopReq' =
               IF stopReq = "missed" THEN stopReq
               ELSE IF cc = 68 /\ value > 63 THEN "none"
               ELSE IF stopReq = "asked"
                    THEN (IF played = STOPPED /\ marker = NoLastFrame
                          THEN "served" ELSE "missed")
               ELSE IF cc = 68 /\ played # STOPPED THEN "asked"
               ELSE stopReq
          /\ loopHeld' = IF cc = 69 /\ value <= 63 /\ loopHeld = "held"
                         THEN "broken" ELSE loopHeld
          /\ UNCHANGED <<mixVars, rbVars, g_bFileOpen, g_sFilename, g_sf_info,
                         g_threadFile, ft, ctl>>

(***************************************************************************)
(* The control API, called by one control thread, one call at a time.      *)
(* ctl.pc is "idle" between calls.                                         *)
(***************************************************************************)
CtlAt(pc) == ctl.pc = pc

CtlGoto(pc) == ctl' = [ctl EXCEPT !.pc = pc]

\* stopPlayback: if(g_nPlayState == STOPPED) return;
StopPlaybackBegin ==
    /\ CtlAt("idle")
    /\ nCalls < MaxCalls
    /\ nCalls' = nCalls + 1
    /\ ctl' = [pc |-> IF g_nPlayState = STOPPED THEN "idle" ELSE "stop_write",
               ret |-> "idle"]
    /\ note' = "none"
    /\ UNCHANGED <<mixVars, g_ringBuffer, rbVars, flagVars, g_threadFile, ft, pending,
                   garbled, loopHeld, stale, staleOut, stopReq>>

\* stopPlayback: g_nPlayState = STOPPING
StopPlaybackWrite ==
    /\ CtlAt("stop_write")
    /\ g_nPlayState' = STOPPING
    /\ CtlGoto("idle")
    /\ stopReq' = IF stopReq = "missed" THEN stopReq ELSE "asked"
    /\ UNCHANGED <<mixVars, g_ringBuffer, rbVars, g_bFileOpen, g_bMore, g_nSeek,
                   g_bLoop, g_nPlaybackPosFrames, g_nLastFrame, g_sFilename,
                   g_sf_info, g_threadFile, ft, pending, garbled, note,
                   loopHeld, stale, staleOut, nCalls>>

\* startPlayback (g_pJackClient is set by init)
startPlayback ==
    /\ CtlAt("idle")
    /\ nCalls < MaxCalls
    /\ nCalls' = nCalls + 1
    /\ g_nPlayState' = STARTING
    /\ note' = "none"
    /\ stopReq' = IF stopReq = "missed" THEN stopReq ELSE "none"
    /\ UNCHANGED <<mixVars, g_ringBuffer, rbVars, g_bFileOpen, g_bMore, g_nSeek,
                   g_bLoop, g_nPlaybackPosFrames, g_nLastFrame, g_sFilename,
                   g_sf_info, g_threadFile, ft, ctl, pending, garbled,
                   loopHeld, stale, staleOut>>

\* setPosition: g_nPlaybackPosFrames = time * g_nSamplerate
SetPositionBegin(position) ==
    /\ CtlAt("idle")
    /\ nCalls < MaxCalls
    /\ nCalls' = nCalls + 1
    /\ g_nPlaybackPosFrames' = position
    /\ ctl' = [pc |-> "seek_write", ret |-> "idle"]
    /\ note' = "none"
    /\ UNCHANGED <<mixVars, g_ringBuffer, rbVars, g_bFileOpen, g_bMore, g_nSeek,
                   g_nPlayState, g_bLoop, g_nLastFrame, g_sFilename,
                   g_sf_info, g_threadFile, ft, pending, garbled, loopHeld,
                   stale, staleOut, stopReq>>

\* setPosition: g_nSeek = SEEKING
SetPositionSeek ==
    /\ CtlAt("seek_write")
    /\ g_nSeek' = SEEKING
    /\ CtlGoto("idle")
    /\ stale' = IF g_nPlayState = PLAYING /\ ~garbled THEN Len(pending)
                ELSE stale
    /\ UNCHANGED <<mixVars, g_ringBuffer, rbVars, g_bFileOpen, g_bMore, g_nPlayState,
                   g_bLoop, g_nPlaybackPosFrames, g_nLastFrame, g_sFilename,
                   g_sf_info, g_threadFile, ft, pending, garbled, note,
                   loopHeld, staleOut, stopReq, nCalls>>

\* setLoop: g_bLoop = bLoop
SetLoopBegin(bLoop) ==
    /\ CtlAt("idle")
    /\ nCalls < MaxCalls
    /\ nCalls' = nCalls + 1
    /\ g_bLoop' = bLoop
    /\ ctl' = [pc |-> "more_write", ret |-> "idle"]
    /\ note' = "none"
    /\ loopHeld' = IF bLoop = 0 /\ loopHeld = "held" THEN "broken"
                   ELSE loopHeld
    /\ UNCHANGED <<mixVars, g_ringBuffer, rbVars, g_bFileOpen, g_bMore, g_nSeek,
                   g_nPlayState, g_nPlaybackPosFrames, g_nLastFrame,
                   g_sFilename, g_sf_info, g_threadFile, ft, pending, garbled,
                   stale, staleOut, stopReq>>

\* setLoop: g_bMore = 1
SetLoopMore ==
    /\ CtlAt("more_write")
    /\ g_bMore' = 1
    /\ CtlGoto("idle")
    /\ UNCHANGED <<mixVars, g_ringBuffer, rbVars, g_bFileOpen, g_nSeek, g_nPlayState,
                   g_bLoop, g_nPlaybackPosFrames, g_nLastFrame, g_sFilename,
                   g_sf_info, g_threadFile, ft, histVars>>

\* closeFile begins with stopPlayback's test; ret is where closeFile returns
\* to ("idle", or "open_copy" inside open)
CloseFileEnter(ret) ==
    /\ CtlAt("idle")
    /\ nCalls < MaxCalls
    /\ nCalls' = nCalls + 1
    /\ ctl' = [pc |-> IF g_nPlayState = STOPPED THEN "close_flag"
                      ELSE "close_stop",
               ret |-> ret]
    /\ note' = "none"
    /\ UNCHANGED <<mixVars, g_ringBuffer, rbVars, flagVars, g_threadFile, ft, pending,
                   garbled, loopHeld, stale, staleOut, stopReq>>

closeFile == CloseFileEnter("idle")

\* open(filename): closeFile() first; filename is read by OpenCopy
open == CloseFileEnter("open_copy")

\* closeFile: stopPlayback's g_nPlayState = STOPPING
CloseFileStop ==
    /\ CtlAt("close_stop")
    /\ g_nPlayState' = STOPPING
    /\ CtlGoto("close_flag")
    /\ stopReq' = IF stopReq = "missed" THEN stopReq ELSE "asked"
    /\ UNCHANGED <<mixVars, g_ringBuffer, rbVars, g_bFileOpen, g_bMore, g_nSeek,
                   g_bLoop, g_nPlaybackPosFrames, g_nLastFrame, g_sFilename,
                   g_sf_info, g_threadFile, ft, pending, garbled, note,
                   loopHeld, stale, staleOut, nCalls>>

\* closeFile: g_bFileOpen = 0
CloseFileFlag ==
    /\ CtlAt("close_flag")
    /\ g_bFileOpen' = 0
    /\ CtlGoto("close_join")
    /\ UNCHANGED <<mixVars, g_ringBuffer, rbVars, g_bMore, g_nSeek, g_nPlayState,
                   g_bLoop, g_nPlaybackPosFrames, g_nLastFrame, g_sFilename,
                   g_sf_info, g_threadFile, ft, histVars>>

\* closeFile: pthread_join(g_threadFile) returns once the thread has exited
\* (at once when there is no thread to wait for)
CloseFileJoin ==
    /\ CtlAt("close_join")
    /\ g_threadFile # "running"
    /\ g_threadFile' = IF g_threadFile = "exited" THEN "joined"
                       ELSE g_threadFile
    /\ CtlGoto("close_name")
    /\ UNCHANGED <<mixVars, g_ringBuffer, rbVars, flagVars, ft, histVars>>

\* closeFile: g_sFilename[0] = '\0'
CloseFileName ==
    /\ CtlAt("close_name")
    /\ g_sFilename' = <<>>
    /\ CtlGoto(ctl.ret)
    /\ UNCHANGED <<mixVars, g_ringBuffer, rbVars, g_bFileOpen, g_bMore, g_nSeek,
                   g_nPlayState, g_bLoop, g_nPlaybackPosFrames, g_nLastFrame,
                   g_sf_info, g_threadFile, ft, histVars>>

\* open: strcpy(g_sFilename, filename)
OpenCopy(filename) ==
    /\ CtlAt("open_copy")
    /\ g_sFilename' = filename
    /\ CtlGoto("open_create")
    /\ UNCHANGED <<mixVars, g_ringBuffer, rbVars, g_bFileOpen, g_bMore, g_nSeek,
                   g_nPlayState, g_bLoop, g_nPlaybackPosFrames, g_nLastFrame,
                   g_sf_info, g_threadFile, ft, histVars>>

\* open: pthread_create(&g_threadFile, &attr, fileThread, NULL); return 1
OpenCreate ==
    /\ CtlAt("open_create")
    /\ g_threadFile' = "running"
    /\ ft' = [pc |-> "open", cursor |-> 0, nNewPos |-> 0, nRead |-> 0,
              pBufferOut |-> <<>>, offset |-> 0]
    /\ ctl' = [pc |-> "idle", ret |-> "idle"]
    /\ loopHeld' = "none"
    /\ note' = "opened"
    /\ UNCHANGED <<mixVars, g_ringBuffer, rbVars, flagVars, pending, garbled,
                   stale, staleOut, stopReq, nCalls>>

control ==
    \/ open
    \/ closeFile
    \/ CloseFileStop
    \/ CloseFileFlag
    \/ CloseFileJoin
    \/ CloseFileName
    \/ \E filename \in Paths : OpenCopy(filename)
    \/ OpenCreate
    \/ \E position \in 0 .. MaxPos : SetPositionBegin(position)
    \/ SetPositionSeek
    \/ \E bLoop \in {0, 1} : SetLoopBegin(bLoop)
    \/ SetLoopMore
    \/ startPlayback
    \/ StopPlaybackBegin
    \/ StopPlaybackWrite

Init ==
    /\ g_ringBuffer = ringBufferInit(ZeroBuffer)
    /\ push = PushIdle
    /\ pop = PopIdle
    /\ absQ = <<>>
    /\ nextId = 1
    /\ overwrote = FALSE
    /\ popStale = FALSE
    /\ fifoBroken = FALSE
    /\ InitGlobals
    /\ MixerLoaded

Next ==
    \/ control
    \/ fileThread
    \/ \E nFrames \in 1 .. MaxPeriod, midi \in MidiEvents :
           onJackProcess(nFrames, midi)

Spec == Init /\ [][Next]_vars

\* The reader is inside its main loop
FtLooping ==
    g_threadFile = "running" /\ ft.pc \notin {"open", "setopen", "init"}

\* C5: with loop off, once the reader has reached end of file during
\* playback and no control call follows, playback only stops after every
\* frame pushed has been output, in order.
C5_DrainsThenStops ==
    (note = "eof" /\ g_nPlayState = STOPPED) => (pending = <<>> /\ ~garbled)

\* C6: after a setPosition during playback, no frame that was in the ring
\* buffer when the seek was requested is output once the seek state is Idle
\* again.
C6_NoStaleAfterSeek == staleOut = FALSE

\* C7: when the seek state is back to Idle after the last setPosition, the
\* reader has sought the file to the position of that last request.
C7_LastSeekServed ==
    (g_nSeek = IDLE /\ FtLooping /\ ~CtlAt("seek_write"))
        => ft.nNewPos = g_nPlaybackPosFrames

\* C8: closeFile's join completes: while it waits, the reader is not
\* running its loop with the file-open flag set (nothing else clears it).
C8_JoinCompletes ==
    ~(CtlAt("close_join") /\ FtLooping /\ g_bFileOpen # 0)

\* C9: after the decoder refused the file, and until the next control call,
\* play_state is Stopped and the file name is empty.
C9_OpenFailureObserved ==
    note = "openfail" => (g_nPlayState = STOPPED /\ g_sFilename = <<>>)

\* C10: while the loop flag has been set since before the reader's first
\* short read, the more flag stays set, no last-frame marker is recorded and
\* play_state never goes from Playing to Stopped.
C10_LoopNeverEnds ==
    /\ []((loopHeld # "broken" /\ FtLooping)
            => (g_bMore = 1 /\ g_nLastFrame = NoLastFrame))
    /\ [][(loopHeld # "broken" /\ FtLooping /\ g_nPlayState = PLAYING)
            => g_nPlayState' # STOPPED]_vars

C10_Witness ==
    /\ loopHeld = "held"
    /\ g_bLoop = 1
    /\ g_nPlayState = PLAYING
    /\ FtLooping
    /\ pending # <<>>
    /\ ft.cursor = 0

LegGainsSwapped(level, balance) ==
    <<IF balance[1] < 0 THEN FMul(level, FAdd(One, balance)) ELSE level,
      IF balance[1] > 0 THEN FMul(level, FSub(One, balance)) ELSE level>>

\* the gain of leg A and of leg B for a level and a balance
LegGains(level, balance) ==
    <<IF balance[1] > 0 THEN FMul(level, FSub(One, balance)) ELSE level,
      IF balance[1] < 0 THEN FMul(level, FAdd(One, balance)) ELSE level>>

\* the test that mutes a strip for this period
SilencedAnyStrip(strip, mixbus, chan, solo) ==
    strip.mute # 0 \/ (solo # 0 /\ strip.solo = 0)

Silenced(strip, mixbus, chan, solo) ==
    \/ strip.mute # 0
    \/ solo # 0 /\ strip.solo = 0 /\ (mixbus = CHANNEL \/ chan # 0)

\* the strip's fields as the callback leaves them
StripAfter(strip, mixbus, chan, solo) ==
    IF Silenced(strip, mixbus, chan, solo)
    THEN [strip EXCEPT !.level = Zero]
    ELSE [strip EXCEPT !.level = strip.reqlevel,
                       !.balance = strip.reqbalance]

\* the gains the period fades to
ReqLevels(strip, mixbus, chan, solo) ==
    IF Silenced(strip, mixbus, chan, solo)
    THEN <<Zero, Zero>>
    ELSE LegGains(strip.reqlevel, strip.reqbalance)

\* the decoder scaled to keep the level: M = (A + B) / 2, S = (A - B) / 2
ShapeHalved(strip, sample) ==
    LET phB == IF strip.phase # 0 THEN FNeg(sample[2]) ELSE sample[2]
        msA == IF strip.ms # 0 THEN FDiv(FAdd(sample[1], phB), 2)
               ELSE sample[1]
        msB == IF strip.ms # 0 THEN FDiv(FSub(sample[1], phB), 2) ELSE phB
        moA == IF strip.mono # 0 THEN FDiv(FAdd(msA, msB), 2) ELSE msA
    IN  <<moA, IF strip.mono # 0 THEN moA ELSE msB>>

\* the sample after phase reverse, M+S decoding and mono
Shape(strip, sample) ==
    LET phB == IF strip.phase # 0 THEN FNeg(sample[2]) ELSE sample[2]
        msA == IF strip.ms # 0 THEN FAdd(sample[1], phB) ELSE sample[1]
        msB == IF strip.ms # 0 THEN FSub(sample[1], phB) ELSE phB
        moA == IF strip.mono # 0 THEN FDiv(FAdd(msA, msB), 2) ELSE msA
    IN  <<moA, IF strip.mono # 0 THEN moA ELSE msB>>

\* sample + add, leg by leg
Mix(sample, add) == <<FAdd(sample[1], add[1]), FAdd(sample[2], add[2])>>

\* sample * gain, leg by leg
Scale(sample, gain) == <<FMul(sample[1], gain[1]), FMul(sample[2], gain[2])>>

RECURSIVE ProcessFrames(_, _, _)
\* the loop over the frames of one strip: c is what the loop only reads,
\* a what it updates, cur the gain of the frame
ProcessFrames(c, frame, a) ==
    IF frame > c.frames THEN a
    ELSE LET in == IF c.mixbus = MIXBUS /\ c.chan = 0
                   THEN Mix(c.pIn[frame], a.norm[frame])
                   ELSE c.pIn[frame]
             fSample == Scale(Shape(c.strip, in), a.cur)
         IN  ProcessFrames(c, frame + 1,
               [cur |-> Mix(a.cur, c.fDelta),
                out |-> IF c.strip.outRouted # 0
                        THEN [a.out EXCEPT ![frame] = Mix(@, fSample)]
                        ELSE a.out,
                sends |->
                    IF c.mixbus = CHANNEL
                    THEN [send \in Chans |->
                            IF send >= 1 /\ a.sends[send].mem # "null"
                            THEN [a.sends[send] EXCEPT !.buffer[frame] =
                                    Mix(@, Scale(fSample,
                                                 <<c.strip.send[send],
                                                   c.strip.send[send]>>))]
                            ELSE a.sends[send]]
                    ELSE a.sends,
                norm |-> IF c.strip.normalise # 0
                         THEN [a.norm EXCEPT ![frame] = Mix(@, fSample)]
                         ELSE a.norm,
                hist |-> Append(a.hist, [in |-> in, gain |-> a.cur,
                                         post |-> fSample])])

\* one pass of the loop over the strips: the strip in slot chan
ProcessStrip(mixbus, chan, frames, solo, pIn, m) ==
    LET strip == m.strips[chan]
        cur == LegGains(strip.level, strip.balance)
        req == ReqLevels(strip, mixbus, chan, solo)
        after == StripAfter(strip, mixbus, chan, solo)
        a == ProcessFrames(
                 [mixbus |-> mixbus, chan |-> chan, frames |-> frames,
                  strip |-> after, pIn |-> pIn[chan],
                  fDelta |-> <<FDiv(FSub(req[1], cur[1]), frames),
                               FDiv(FSub(req[2], cur[2]), frames)>>],
                 1,
                 [cur |-> cur,
                  out |-> IF after.outRouted # 0 THEN Silence(frames)
                          ELSE m.out[chan],
                  sends |-> m.sends, norm |-> m.norm, hist |-> <<>>])
    IN  IF strip.mem = "null" THEN m
        ELSE IF strip.inRouted # 0 \/ mixbus = MIXBUS
        THEN [strips |-> [m.strips EXCEPT ![chan] = after],
              sends |-> a.sends, norm |-> a.norm,
              out |-> [m.out EXCEPT ![chan] = a.out],
              hist |-> [m.hist EXCEPT ![chan] = a.hist]]
        ELSE m

\* the send buffers left as the period before filled them
ClearBuffersNormOnly(mixbus, frames, m) ==
    IF mixbus = MIXBUS THEN [m EXCEPT !.norm = Silence(frames)] ELSE m

\* what the callback clears before the loop over the strips
ClearBuffers(mixbus, frames, m) ==
    IF mixbus = MIXBUS
    THEN [m EXCEPT !.norm = Silence(frames)]
    ELSE [m EXCEPT !.sends =
             [send \in Chans |->
                IF m.sends[send].mem # "null"
                THEN [m.sends[send] EXCEPT !.buffer = Silence(frames)]
                ELSE m.sends[send]]]

RECURSIVE ProcessStripsForward(_, _, _, _, _, _)
\* the loop counting up: the strip in slot 0 first
ProcessStripsForward(mixbus, chan, frames, solo, pIn, m) ==
    IF chan = 0 THEN m
    ELSE ProcessStrip(mixbus, chan - 1, frames, solo, pIn,
                      ProcessStripsForward(mixbus, chan - 1, frames, solo,
                                           pIn, m))

RECURSIVE ProcessStrips(_, _, _, _, _, _)
\* while (chan--): the strips in reverse order, from slot chan - 1 down
ProcessStrips(mixbus, chan, frames, solo, pIn, m) ==
    IF chan = 0 THEN m
    ELSE ProcessStrips(mixbus, chan - 1, frames, solo, pIn,
                       ProcessStrip(mixbus, chan - 1, frames, solo, pIn, m))

\* the memory the callback of a tier finds
Memory(mixbus) ==
    [strips |-> strips(mixbus), sends |-> g_fxSends,
     norm |-> g_mainNoramliseBuffer, out |-> portBuffer[mixbus],
     hist |-> [chan \in Chans |-> <<>>]]

(***************************************************************************)
(* The mixer's control API (mixer.c).  The setters and what is built from  *)
(* them are operators on T, the two slot tables and the global solo flag;  *)
(* a call of the control thread applies one to the program's state.  A     *)
(* slot left dangling is not NULL, so the setters write to it like to a    *)
(* strip: such a call either kills the process or finds the freed memory   *)
(* holding what was last written to it.                                    *)
(***************************************************************************)
Tables ==
    [strips |-> [mixbus \in Tiers |-> strips(mixbus)], g_solo |-> g_solo]

SetTables(T) ==
    /\ g_channelStrips' = T.strips[CHANNEL]
    /\ g_mixbusStrips' = T.strips[MIXBUS]
    /\ g_solo' = T.g_solo

\* channel >= MAX_CHANNELS || strips[channel] == NULL
NoStrip(T, channel, mixbus) ==
    channel >= MAX_CHANNELS \/ T.strips[mixbus][channel].mem = "null"

setLevel(T, channel, mixbus, level) ==
    IF NoStrip(T, channel, mixbus) THEN T
    ELSE [T EXCEPT !.strips[mixbus][channel].reqlevel = level]

getLevel(T, channel, mixbus) ==
    IF NoStrip(T, channel, mixbus) THEN Zero
    ELSE T.strips[mixbus][channel].reqlevel

setBalance(T, channel, mixbus, balance) ==
    IF NoStrip(T, channel, mixbus) THEN T
    ELSE IF Abs(balance[1]) > balance[2] THEN T
    ELSE [T EXCEPT !.strips[mixbus][channel].reqbalance = balance]

getBalance(T, channel, mixbus) ==
    IF NoStrip(T, channel, mixbus) THEN Zero
    ELSE T.strips[mixbus][channel].reqbalance

setMute(T, channel, mixbus, mute) ==
    IF NoStrip(T, channel, mixbus) THEN T
    ELSE [T EXCEPT !.strips[mixbus][channel].mute = mute]

getMute(T, channel, mixbus) ==
    IF NoStrip(T, channel, mixbus) THEN 0
    ELSE T.strips[mixbus][channel].mute

setPhase(T, channel, mixbus, phase) ==
    IF NoStrip(T, channel, mixbus) THEN T
    ELSE [T EXCEPT !.strips[mixbus][channel].phase = phase]

getPhase(T, channel, mixbus) ==
    IF NoStrip(T, channel, mixbus) THEN 0
    ELSE T.strips[mixbus][channel].phase

setSend(T, channel, send, level) ==
    IF NoStrip(T, channel, CHANNEL) \/ send >= MAX_CHANNELS THEN T
    ELSE [T EXCEPT !.strips[CHANNEL][channel].send[send] = level]

getSend(T, channel, send) ==
    IF NoStrip(T, channel, CHANNEL) \/ send >= MAX_CHANNELS THEN Zero
    ELSE T.strips[CHANNEL][channel].send[send]

setNormalise(T, channel, enable) ==
    IF channel = 0 \/ NoStrip(T, channel, MIXBUS) THEN T
    ELSE [T EXCEPT !.strips[MIXBUS][channel].normalise = enable]

getNormalise(T, channel) ==
    IF NoStrip(T, channel, MIXBUS) THEN 0
    ELSE T.strips[MIXBUS][channel].normalise

\* the loop that sets the global solo flag
AnySolo(T) ==
    IF \E chan \in Chans, mixbus \in Tiers :
          /\ T.strips[mixbus][chan].mem # "null"
          /\ T.strips[mixbus][chan].solo # 0
    THEN 1 ELSE 0

setSolo(T, channel, mixbus, solo) ==
    IF NoStrip(T, channel, mixbus) THEN T
    ELSE LET set ==
               IF mixbus = MIXBUS /\ channel = 0
               THEN [T EXCEPT !.strips =
                       [m \in Tiers |-> [chan \in Chans |->
                          IF T.strips[m][chan].mem # "null"
                          THEN [T.strips[m][chan] EXCEPT !.solo = 0]
                          ELSE T.strips[m][chan]]]]
               ELSE [T EXCEPT !.strips[mixbus][channel].solo = solo]
         IN  [set EXCEPT !.g_solo = AnySolo(set)]

getSolo(T, channel, mixbus) ==
    IF NoStrip(T, channel, mixbus) THEN 0
    ELSE T.strips[mixbus][channel].solo

setMono(T, channel, mixbus, mono) ==
    IF NoStrip(T, channel, mixbus) THEN T
    ELSE [T EXCEPT !.strips[mixbus][channel].mono =
                      IF mono # 0 THEN 1 ELSE 0]

getMono(T, channel, mixbus) ==
    IF NoStrip(T, channel, mixbus) THEN 0
    ELSE T.strips[mixbus][channel].mono

setMS(T, channel, mixbus, enable) ==
    IF NoStrip(T, channel, mixbus) THEN T
    ELSE [T EXCEPT !.strips[mixbus][channel].ms =
                      IF enable # 0 THEN 1 ELSE 0]

RECURSIVE ResetSends(_, _, _)
\* for (send = 0; send < MAX_CHANNELS; ++send) setSend(channel, send, 0)
ResetSends(T, channel, send) ==
    IF send >= MAX_CHANNELS THEN T
    ELSE ResetSends(setSend(T, channel, send, Zero), channel, send + 1)

\* the loop over the sends left out
resetKeepsSends(T, channel, mixbus) ==
    setSolo(setPhase(setMono(setMute(
        setBalance(setLevel(T, channel, mixbus, <<4, 5>>),
                   channel, mixbus, Zero),
        channel, mixbus, 0), channel, mixbus, 0), channel, mixbus, 0),
        channel, mixbus, 0)

reset(T, channel, mixbus) ==
    LET faders == setBalance(setLevel(T, channel, mixbus, <<4, 5>>),
                             channel, mixbus, Zero)
        flags == setPhase(setMono(setMute(faders, channel, mixbus, 0),
                                  channel, mixbus, 0), channel, mixbus, 0)
        solos == setSolo(flags, channel, mixbus, 0)
    IN  IF mixbus = CHANNEL THEN ResetSends(solos, channel, 0) ELSE solos

\* inet_pton(AF_INET, client, ...): -1 for a string that is no address,
\* else the address, 0 for "0.0.0.0"
OscAddresses == {-1, 0, 1}

RECURSIVE OscRefresh(_, _)
\* addOscClient's loops over mixbus and chan, from the k-th pass on: the
\* tables they leave, and whether a pass wrote through a NULL strips[chan]
OscRefresh(T, k) ==
    IF k >= 2 * MAX_CHANNELS THEN [T |-> T, null |-> FALSE]
    ELSE LET mixbus == k \div MAX_CHANNELS
             chan == k % MAX_CHANNELS
             faders == setLevel(setBalance(T, chan, mixbus,
                                           getBalance(T, chan, mixbus)),
                                chan, mixbus, getLevel(T, chan, mixbus))
             flags == setPhase(
                          setMute(setMono(faders, chan, mixbus,
                                          getMono(faders, chan, mixbus)),
                                  chan, mixbus,
                                  getMute(faders, chan, mixbus)),
                          chan, mixbus, getPhase(faders, chan, mixbus))
             sent == setSolo(flags, chan, mixbus,
                             getSolo(flags, chan, mixbus))
         IN  IF NoStrip(sent, chan, mixbus)
             THEN [T |-> sent, null |-> TRUE]
             ELSE OscRefresh(sent, k + 1)

\* some slot is left dangling
Dangling ==
    \E chan \in Chans, mixbus \in Tiers : strips(mixbus)[chan].mem = "freed"

(***************************************************************************)
(* The calls of the control thread.  addStrip and removeStrip are taken    *)
(* step by step, between the statements where another thread can see the   *)
(* difference; the other calls are one step.  init() is the addStrip(1)    *)
(* that creates the main mixbus strip, followed by the activation of the   *)
(* clients and the start of the event thread.                              *)
(***************************************************************************)
\* API calls of one run
MaxApi == 4

ApiCall ==
    /\ running /\ ~crashed
    /\ api.pc = "idle"
    /\ api.calls < MaxApi

\* the call op returns ret
ApiReturn(op, mixbus, chan, ret) ==
    api' = [ApiIdle EXCEPT !.ret = ret, !.calls = api.calls + 1]

SetStrip(mixbus, chan, strip) ==
    IF mixbus = MIXBUS
    THEN /\ g_mixbusStrips' = [g_mixbusStrips EXCEPT ![chan] = strip]
         /\ UNCHANGED g_channelStrips
    ELSE /\ g_channelStrips' = [g_channelStrips EXCEPT ![chan] = strip]
         /\ UNCHANGED g_mixbusStrips

FreeSlots(mixbus) == {chan \in Chans : strips(mixbus)[chan].mem = "null"}

\* addStrip up to the lock: the first slot that is NULL gets a new strip
AddStripAlloc(mixbus) ==
    /\ \/ ApiCall
       \/ ~crashed /\ api.pc = "init" /\ mixbus = MIXBUS
    /\ IF FreeSlots(mixbus) = {}
       THEN /\ ApiReturn("addStrip", mixbus, 0, -1)
            /\ UNCHANGED <<g_channelStrips, g_mixbusStrips>>
       ELSE \E chan \in FreeSlots(mixbus) :
              /\ \A other \in FreeSlots(mixbus) : chan <= other
              /\ SetStrip(mixbus, chan, NewStrip)
              /\ api' = [pc |-> "lock",
                         op |-> IF api.pc = "init" THEN "init"
                                ELSE "addStrip",
                         mixbus |-> mixbus, chan |-> chan, ret |-> 0,
                         failed |-> FALSE,
                         before |-> <<g_channelStrips, g_mixbusStrips,
                                      g_fxSends, jackPorts>>,
                         calls |-> api.calls]
    /\ UNCHANGED <<zynaudioplayerVars, shaping, meterVars, jackOut, g_solo, g_fxSends, g_bOsc, g_oscClient, g_buffersize,
                   g_mainNoramliseBuffer, mutex, jackPorts, jackConnected,
                   portBuffer, rt, ev, running, crashed, hazard, period>>

\* pthread_mutex_lock(&mutex)
AddStripLock ==
    /\ ~crashed
    /\ api.pc = "lock"
    /\ mutex = "free"
    /\ mutex' = "api"
    /\ api' = [api EXCEPT !.pc = "inA"]
    /\ UNCHANGED <<zynaudioplayerVars, shaping, meterVars, jackOut, g_channelStrips, g_mixbusStrips, g_solo, g_fxSends,
                   g_bOsc, g_oscClient, g_buffersize, g_mainNoramliseBuffer,
                   jackPorts, jackConnected, portBuffer, rt, ev, running,
                   crashed, hazard, period>>

PortOrder == <<"inA", "inB", "outA", "outB">>

\* addStrip returns: init() goes on to allocate the normalise buffer,
\* register the callbacks, activate the clients and start the thread
AddStripReturn(ret) ==
    /\ api' = [ApiIdle EXCEPT !.ret = ret,
                              !.calls = IF api.op = "init" THEN 0
                                        ELSE api.calls + 1]
    /\ running' = TRUE
    /\ g_mainNoramliseBuffer' =
           IF api.op = "init" THEN Silence(g_buffersize)
           ELSE g_mainNoramliseBuffer

\* what addStrip leaves in the slot when the k-th registration failed
FailedSlot(k) ==
    IF k = 1 THEN [strips(api.mixbus)[api.chan] EXCEPT !.mem = "freed"]
    ELSE NullStrip

\* one jack_port_register of addStrip, which succeeds (ok) or returns NULL
AddStripRegister(ok) ==
    /\ ~crashed
    /\ \E k \in 1 .. 4 :
         /\ api.pc = PortOrder[k]
         /\ IF ok
            THEN /\ jackPorts' = jackPorts \cup
                                   {<<api.mixbus, api.chan, PortOrder[k]>>}
                 /\ api' = [api EXCEPT !.pc = IF k < 4 THEN PortOrder[k + 1]
                                              ELSE "send"]
                 /\ UNCHANGED <<g_channelStrips, g_mixbusStrips, mutex,
                                running, g_mainNoramliseBuffer, hazard>>
            ELSE /\ jackPorts' = jackPorts \
                       {<<api.mixbus, api.chan, PortOrder[j]>> :
                           j \in 1 .. (k - 1)}
                 /\ SetStrip(api.mixbus, api.chan, FailedSlot(k))
                 /\ hazard' = IF FailedSlot(k).mem = "freed"
                              THEN hazard \cup {"dangling"} ELSE hazard
                 /\ mutex' = "free"
                 /\ AddStripReturn(-1)
    /\ UNCHANGED <<zynaudioplayerVars, shaping, meterVars, jackOut, g_solo, g_fxSends, g_bOsc, g_oscClient, g_buffersize,
                   jackConnected, portBuffer, rt, ev, crashed, period>>

\* the rest of addStrip: the send of a mixbus strip other than the main
\* one, the unlock and the return
AddStripSend ==
    /\ ~crashed
    /\ api.op \in {"init", "addStrip"} /\ api.pc = "send"
    /\ IF api.chan # 0 /\ api.mixbus = MIXBUS
       THEN /\ g_fxSends' = [g_fxSends EXCEPT ![api.chan] =
                               [mem |-> "live", level |-> One,
                                buffer |-> Silence(g_buffersize)]]
            /\ jackPorts' = jackPorts \cup SendPorts(api.chan)
       ELSE UNCHANGED <<g_fxSends, jackPorts>>
    /\ portBuffer' = [portBuffer EXCEPT ![api.mixbus][api.chan] =
                                          Silence(g_buffersize)]
    /\ mutex' = "free"
    /\ AddStripReturn(api.chan)
    /\ UNCHANGED <<zynaudioplayerVars, shaping, meterVars, jackOut, g_channelStrips, g_mixbusStrips, g_solo, g_bOsc,
                   g_oscClient, g_buffersize, jackConnected, rt, ev,
                   crashed, hazard, period>>

addStrip ==
    \/ \E mixbus \in Tiers : AddStripAlloc(mixbus)
    \/ AddStripLock
    \/ \E ok \in BOOLEAN : AddStripRegister(ok)
    \/ AddStripSend

\* the thread records that hold a pointer to the strip in slot chan, marked
\* as holding a strip that removeStrip has unregistered or freed
RtMarked(mixbus, chan) ==
    [m \in Tiers |->
       IF m = mixbus /\ rt[m].pc = "strip" /\ rt[m].chan = chan
       THEN [rt[m] EXCEPT !.stale = TRUE] ELSE rt[m]]

EvMarked(mixbus, chan) ==
    IF ev.pc = "read" /\ ev.mixbus = mixbus /\ ev.chan = chan
    THEN [ev EXCEPT !.stale = TRUE] ELSE ev

\* removeStrip has unregistered the ports of the strip in this slot, or
\* freed it, and has not yet set the slot to NULL
Removing(mixbus, chan) ==
    /\ api.op = "removeStrip"
    /\ api.pc \in {"free", "null"}
    /\ api.mixbus = mixbus /\ api.chan = chan

\* removeStrip's test of its arguments
RemoveStripCall(chan, mixbus) ==
    /\ ApiCall
    /\ IF (mixbus = MIXBUS /\ chan = 0) \/ NoStrip(Tables, chan, mixbus)
       THEN ApiReturn("removeStrip", mixbus, chan, -1)
       ELSE api' = [pc |-> "send", op |-> "removeStrip", mixbus |-> mixbus,
                    chan |-> chan, ret |-> 0, failed |-> FALSE,
                    before |-> <<g_channelStrips, g_mixbusStrips,
                                 g_fxSends, jackPorts>>,
                    calls |-> api.calls]
    /\ UNCHANGED <<zynaudioplayerVars, shaping, meterVars, jackOut, g_channelStrips, g_mixbusStrips, g_solo, g_fxSends,
                   g_bOsc, g_oscClient, g_buffersize, g_mainNoramliseBuffer,
                   mutex, jackPorts, jackConnected, portBuffer, rt, ev,
                   running, crashed, hazard, period>>

\* if (g_fxSends[chan]) { unregister its ports, free it, set it to NULL }
RemoveStripSend ==
    /\ ~crashed
    /\ api.op = "removeStrip" /\ api.pc = "send"
    /\ g_fxSends' = [g_fxSends EXCEPT ![api.chan] = NullSend]
    /\ jackPorts' = jackPorts \ SendPorts(api.chan)
    /\ jackConnected' = jackConnected \ SendPorts(api.chan)
    /\ api' = [api EXCEPT !.pc = "ports"]
    /\ UNCHANGED <<zynaudioplayerVars, shaping, meterVars, jackOut, g_channelStrips, g_mixbusStrips, g_solo, g_bOsc,
                   g_oscClient, g_buffersize, g_mainNoramliseBuffer, mutex,
                   portBuffer, rt, ev, running, crashed, hazard, period>>

\* the four jack_port_unregister of the strip's ports
RemoveStripPorts ==
    /\ ~crashed
    /\ api.op = "removeStrip" /\ api.pc = "ports"
    /\ jackPorts' = jackPorts \ StripPorts(api.mixbus, api.chan)
    /\ jackConnected' = jackConnected \ StripPorts(api.mixbus, api.chan)
    /\ portBuffer' = [portBuffer EXCEPT ![api.mixbus][api.chan] = <<>>]
    /\ rt' = RtMarked(api.mixbus, api.chan)
    /\ api' = [api EXCEPT !.pc = "free"]
    /\ \E dies \in IF strips(api.mixbus)[api.chan].mem = "freed"
                   THEN BOOLEAN ELSE {FALSE} : crashed' = dies
    /\ UNCHANGED <<zynaudioplayerVars, shaping, meterVars, jackOut, g_channelStrips, g_mixbusStrips, g_solo, g_fxSends,
                   g_bOsc, g_oscClient, g_buffersize, g_mainNoramliseBuffer,
                   mutex, ev, running, hazard, period>>

\* free(strips[chan])
RemoveStripFree ==
    /\ ~crashed
    /\ api.op = "removeStrip" /\ api.pc = "free"
    /\ SetStrip(api.mixbus, api.chan,
                [strips(api.mixbus)[api.chan] EXCEPT !.mem = "removed"])
    /\ rt' = RtMarked(api.mixbus, api.chan)
    /\ ev' = EvMarked(api.mixbus, api.chan)
    /\ api' = [api EXCEPT !.pc = "null"]
    /\ \E dies \in IF strips(api.mixbus)[api.chan].mem = "freed"
                   THEN BOOLEAN ELSE {FALSE} : crashed' = dies
    /\ UNCHANGED <<zynaudioplayerVars, shaping, meterVars, jackOut, g_solo, g_fxSends, g_bOsc, g_oscClient, g_buffersize,
                   g_mainNoramliseBuffer, mutex, jackPorts, jackConnected,
                   portBuffer, running, hazard, period>>

\* strips[chan] = NULL; return chan
RemoveStripNull ==
    /\ ~crashed
    /\ api.op = "removeStrip" /\ api.pc = "null"
    /\ SetStrip(api.mixbus, api.chan, NullStrip)
    /\ api' = [ApiIdle EXCEPT !.ret = api.chan, !.calls = api.calls + 1]
    /\ UNCHANGED <<zynaudioplayerVars, shaping, meterVars, jackOut, g_solo, g_fxSends, g_bOsc, g_oscClient, g_buffersize,
                   g_mainNoramliseBuffer, mutex, jackPorts, jackConnected,
                   portBuffer, rt, ev, running, crashed, hazard, period>>

removeStrip ==
    \/ \E chan \in 0 .. MAX_CHANNELS, mixbus \in Tiers :
           RemoveStripCall(chan, mixbus)
    \/ RemoveStripSend
    \/ RemoveStripPorts
    \/ RemoveStripFree
    \/ RemoveStripNull

\* a call that only changes the slot tables and the solo flag: T is what
\* it leaves; a call that found a dangling slot may kill the process
TableCall(op, mixbus, chan, T) ==
    /\ ApiCall
    /\ SetTables(T)
    /\ ApiReturn(op, mixbus, chan, 0)
    /\ \E dies \in IF Dangling /\ T # Tables THEN BOOLEAN ELSE {FALSE} :
           crashed' = dies
    /\ UNCHANGED <<zynaudioplayerVars, shaping, meterVars, jackOut, g_fxSends, g_bOsc, g_oscClient, g_buffersize,
                   g_mainNoramliseBuffer, mutex, jackPorts, jackConnected,
                   portBuffer, rt, ev, running, hazard, period>>

CallSetSolo(channel, mixbus, solo) ==
    TableCall("setSolo", mixbus, channel,
              setSolo(Tables, channel, mixbus, solo))

CallReset(channel, mixbus) ==
    TableCall("reset", mixbus, channel, reset(Tables, channel, mixbus))

\* the first client slot that holds no address
FreeClients == {i \in DOMAIN g_oscClient : g_oscClient[i] = 0}

CallAddOscClient(client) ==
    /\ ApiCall
    /\ IF FreeClients = {}
       THEN /\ ApiReturn("addOscClient", 0, 0, -1)
            /\ UNCHANGED <<g_channelStrips, g_mixbusStrips, g_solo, g_bOsc,
                           g_oscClient, crashed>>
       ELSE \E i \in FreeClients :
              /\ \A other \in FreeClients : i <= other
              /\ IF client = -1
                 THEN /\ ApiReturn("addOscClient", 0, 0, -1)
                      /\ UNCHANGED <<g_channelStrips, g_mixbusStrips, g_solo,
                                     g_bOsc, g_oscClient, crashed>>
                 ELSE \E r \in {OscRefresh(Tables, 0)} :
                        /\ g_oscClient' = [g_oscClient EXCEPT ![i] = client]
                        /\ SetTables(r.T)
                        /\ g_bOsc' = IF r.null THEN g_bOsc ELSE 1
                        /\ \E dies \in
                               IF r.null THEN {TRUE}
                               ELSE IF Dangling THEN BOOLEAN
                               ELSE {FALSE} : crashed' = dies
                        /\ ApiReturn("addOscClient", 0, 0, i)
    /\ UNCHANGED <<zynaudioplayerVars, shaping, meterVars, jackOut, g_fxSends, g_buffersize, g_mainNoramliseBuffer, mutex,
                   jackPorts, jackConnected, portBuffer, rt, ev, running,
                   hazard, period>>

CallRemoveOscClient(client) ==
    /\ ApiCall
    /\ IF client = -1
       THEN UNCHANGED <<g_bOsc, g_oscClient>>
       ELSE LET left == [i \in DOMAIN g_oscClient |->
                           IF g_oscClient[i] = client THEN 0
                           ELSE g_oscClient[i]]
            IN  /\ g_oscClient' = left
                /\ g_bOsc' = IF \E i \in DOMAIN left : left[i] # 0
                             THEN 1 ELSE 0
    /\ ApiReturn("removeOscClient", 0, 0, 0)
    /\ UNCHANGED <<zynaudioplayerVars, shaping, meterVars, jackOut, g_channelStrips, g_mixbusStrips, g_solo, g_fxSends,
                   g_buffersize, g_mainNoramliseBuffer, mutex, jackPorts,
                   jackConnected, portBuffer, rt, ev, running, crashed,
                   hazard, period>>

(***************************************************************************)
(* The process callback of each tier, step by step: the wait for the       *)
(* mutex, the loop over the strips (the load of a slot, then the work on   *)
(* the strip it points to) and the unlock.                                 *)
(***************************************************************************)
\* JACK calls onJackProcess, which asks for the mutex
RtEnter(mixbus) ==
    /\ running /\ ~crashed
    /\ rt[mixbus].pc = "idle"
    /\ rt' = [rt EXCEPT ![mixbus].pc = "lock"]
    /\ UNCHANGED <<zynaudioplayerVars, shaping, meterVars, jackOut, g_channelStrips, g_mixbusStrips, g_solo, g_fxSends,
                   g_bOsc, g_oscClient, g_buffersize, g_mainNoramliseBuffer,
                   mutex, jackPorts, jackConnected, portBuffer, api, ev,
                   running, crashed, hazard, period>>

\* pthread_mutex_lock returns; the buffers are cleared
RtLock(mixbus, pIn) ==
    /\ ~crashed
    /\ rt[mixbus].pc = "lock"
    /\ mutex = "free"
    /\ mutex' = IF mixbus = MIXBUS THEN "rt1" ELSE "rt0"
    /\ \E m \in {ClearBuffers(mixbus, g_buffersize, Memory(mixbus))} :
         /\ g_fxSends' = m.sends
         /\ g_mainNoramliseBuffer' = m.norm
    /\ rt' = [rt EXCEPT ![mixbus] = [pc |-> "loop", chan |-> MAX_CHANNELS,
                                     stale |-> FALSE]]
    /\ UNCHANGED <<zynaudioplayerVars, shaping, meterVars, jackOut, g_channelStrips, g_mixbusStrips, g_solo, g_bOsc,
                   g_oscClient, g_buffersize, jackPorts, jackConnected,
                   portBuffer, api, ev, running, crashed, hazard, period>>

\* while (chan--) { strip = strips[chan]; if (strip == NULL) continue;
RtLoad(mixbus) ==
    /\ ~crashed
    /\ rt[mixbus].pc = "loop"
    /\ IF rt[mixbus].chan = 0
       THEN rt' = [rt EXCEPT ![mixbus].pc = "unlock"]
       ELSE LET chan == rt[mixbus].chan - 1
            IN  rt' = [rt EXCEPT ![mixbus] =
                         [pc |-> IF strips(mixbus)[chan].mem = "null"
                                 THEN "loop" ELSE "strip",
                          chan |-> chan,
                          stale |-> Removing(mixbus, chan)]]
    /\ UNCHANGED <<zynaudioplayerVars, shaping, meterVars, jackOut, g_channelStrips, g_mixbusStrips, g_solo, g_fxSends,
                   g_bOsc, g_oscClient, g_buffersize, g_mainNoramliseBuffer,
                   mutex, jackPorts, jackConnected, portBuffer, api, ev,
                   running, crashed, hazard, period>>

\* the memory the callback leaves becomes the program's
SetMemory(mixbus, m) ==
    /\ IF mixbus = MIXBUS
       THEN g_mixbusStrips' = m.strips /\ UNCHANGED g_channelStrips
       ELSE g_channelStrips' = m.strips /\ UNCHANGED g_mixbusStrips
    /\ g_fxSends' = m.sends
    /\ g_mainNoramliseBuffer' = m.norm
    /\ portBuffer' = [portBuffer EXCEPT ![mixbus] = m.out]

\* the body of the loop for the strip loaded.  A strip that removeStrip
\* has unregistered or freed since, or that addStrip left dangling, is an
\* invalid access: the process dies or goes on
RtStrip(mixbus, pIn) ==
    /\ ~crashed
    /\ rt[mixbus].pc = "strip"
    /\ rt' = [rt EXCEPT ![mixbus].pc = "loop", ![mixbus].stale = FALSE]
    /\ LET chan == rt[mixbus].chan
           gone == rt[mixbus].stale \/ strips(mixbus)[chan].mem # "live"
       IN  IF gone
           THEN /\ hazard' = IF rt[mixbus].stale THEN hazard \cup {"rt"}
                             ELSE hazard
                /\ \E dies \in BOOLEAN : crashed' = dies
                /\ UNCHANGED <<g_channelStrips, g_mixbusStrips, g_fxSends,
                               g_mainNoramliseBuffer, portBuffer>>
           ELSE \E m \in {ProcessStrip(mixbus, chan, g_buffersize, g_solo,
                                       pIn, Memory(mixbus))} :
                  /\ SetMemory(mixbus, m)
                  /\ UNCHANGED <<hazard, crashed>>
    /\ UNCHANGED <<zynaudioplayerVars, shaping, meterVars, jackOut, g_solo, g_bOsc, g_oscClient, g_buffersize, mutex,
                   jackPorts, jackConnected, api, ev, running, period>>

\* pthread_mutex_unlock(&mutex); return 0
RtUnlock(mixbus) ==
    /\ ~crashed
    /\ rt[mixbus].pc = "unlock"
    /\ mutex' = "free"
    /\ rt' = [rt EXCEPT ![mixbus] = RtIdle]
    /\ UNCHANGED <<zynaudioplayerVars, shaping, meterVars, jackOut, g_channelStrips, g_mixbusStrips, g_solo, g_fxSends,
                   g_bOsc, g_oscClient, g_buffersize, g_mainNoramliseBuffer,
                   jackPorts, jackConnected, portBuffer, api, ev, running,
                   crashed, hazard, period>>

\* what JACK hands to a callback when no input port carries a signal
SilentInput == [chan \in Chans |-> Silence(g_buffersize)]

mixerProcess ==
    \E mixbus \in Tiers :
        \/ RtEnter(mixbus)
        \/ RtLock(mixbus, SilentInput)
        \/ RtLoad(mixbus)
        \/ RtStrip(mixbus, SilentInput)
        \/ RtUnlock(mixbus)

(***************************************************************************)
(* eventThreadFn: whilst an OSC client is subscribed it walks the slots,   *)
(* channel strip then mixbus strip of each index, and reads the meters of  *)
(* every strip whose slot is not NULL.                                     *)
(***************************************************************************)
\* the slot after (mixbus, chan), or the end of the walk
EvNext(mixbus, chan) ==
    IF mixbus = CHANNEL THEN [pc |-> "test", mixbus |-> MIXBUS,
                              chan |-> chan, stale |-> FALSE]
    ELSE IF chan + 1 < MAX_CHANNELS
    THEN [pc |-> "test", mixbus |-> CHANNEL, chan |-> chan + 1,
          stale |-> FALSE]
    ELSE EvIdle

\* if (g_bOsc): the walk starts
EvStart ==
    /\ running /\ ~crashed
    /\ ev.pc = "idle"
    /\ g_bOsc # 0
    /\ ev' = [pc |-> "test", mixbus |-> CHANNEL, chan |-> 0,
              stale |-> FALSE]
    /\ UNCHANGED <<zynaudioplayerVars, shaping, meterVars, jackOut, g_channelStrips, g_mixbusStrips, g_solo, g_fxSends,
                   g_bOsc, g_oscClient, g_buffersize, g_mainNoramliseBuffer,
                   mutex, jackPorts, jackConnected, portBuffer, rt, api,
                   running, crashed, hazard, period>>

\* if (g_channelStrips[chan]), if (g_mixbusStrips[chan])
EvTest ==
    /\ ~crashed
    /\ ev.pc = "test"
    /\ ev' = IF strips(ev.mixbus)[ev.chan].mem = "null"
             THEN EvNext(ev.mixbus, ev.chan)
             ELSE [ev EXCEPT !.pc = "read",
                             !.stale = /\ api.op = "removeStrip"
                                       /\ api.pc = "null"
                                       /\ api.mixbus = ev.mixbus
                                       /\ api.chan = ev.chan]
    /\ UNCHANGED <<zynaudioplayerVars, shaping, meterVars, jackOut, g_channelStrips, g_mixbusStrips, g_solo, g_fxSends,
                   g_bOsc, g_oscClient, g_buffersize, g_mainNoramliseBuffer,
                   mutex, jackPorts, jackConnected, portBuffer, rt, api,
                   running, crashed, hazard, period>>

\* the reads of the strip's meters
EvRead ==
    /\ ~crashed
    /\ ev.pc = "read"
    /\ ev' = EvNext(ev.mixbus, ev.chan)
    /\ IF ev.stale \/ strips(ev.mixbus)[ev.chan].mem # "live"
       THEN /\ hazard' = IF ev.stale THEN hazard \cup {"ev"} ELSE hazard
            /\ \E dies \in BOOLEAN : crashed' = dies
       ELSE UNCHANGED <<hazard, crashed>>
    /\ UNCHANGED <<zynaudioplayerVars, shaping, meterVars, jackOut, g_channelStrips, g_mixbusStrips, g_solo, g_fxSends,
                   g_bOsc, g_oscClient, g_buffersize, g_mainNoramliseBuffer,
                   mutex, jackPorts, jackConnected, portBuffer, rt, api,
                   running, period>>

eventThreadFn == EvStart \/ EvTest \/ EvRead

(***************************************************************************)
(* The mixer's threads together (SpecMix): the control thread, the two     *)
(* process callbacks and the event thread, from the call of init().        *)
(***************************************************************************)
InitMix ==
    /\ g_ringBuffer = ringBufferInit(ZeroBuffer)
    /\ push = PushIdle
    /\ pop = PopIdle
    /\ absQ = <<>>
    /\ nextId = 1
    /\ overwrote = FALSE
    /\ popStale = FALSE
    /\ fifoBroken = FALSE
    /\ InitGlobals
    /\ g_channelStrips = [chan \in Chans |-> NullStrip]
    /\ g_mixbusStrips = [chan \in Chans |-> NullStrip]
    /\ g_fxSends = [chan \in Chans |-> NullSend]
    /\ g_solo = 0
    /\ g_bOsc = 0
    /\ g_oscClient = [i \in 0 .. (MAX_OSC_CLIENTS - 1) |-> 0]
    /\ g_buffersize = 1
    /\ g_mainNoramliseBuffer = <<>>
    /\ mutex = "free"
    /\ jackPorts = {}
    /\ jackConnected = {}
    /\ portBuffer = [mixbus \in Tiers |-> [chan \in Chans |-> <<>>]]
    /\ rt = [mixbus \in Tiers |-> RtIdle]
    /\ api = [ApiIdle EXCEPT !.pc = "init"]
    /\ ev = EvIdle
    /\ running = FALSE
    /\ crashed = FALSE
    /\ hazard = {}
    /\ period = [mixbus \in Tiers |-> NoPeriod]
    /\ shaping = NoShaping
    /\ g_nDampingCount = 0
    /\ g_nHoldCount = 0
    /\ jackOut = <<>>

NextMix ==
    \/ addStrip
    \/ removeStrip
    \/ \E channel \in 0 .. MAX_CHANNELS, mixbus \in Tiers,
          solo \in {0, 1} : CallSetSolo(channel, mixbus, solo)
    \/ \E channel \in 0 .. MAX_CHANNELS, mixbus \in Tiers :
          CallReset(channel, mixbus)
    \/ \E client \in OscAddresses : CallAddOscClient(client)
    \/ \E client \in OscAddresses : CallRemoveOscClient(client)
    \/ mixerProcess
    \/ eventThreadFn

SpecMix == InitMix /\ [][NextMix]_vars

(***************************************************************************)
(* The mixer's audio path (SpecDsp): every slot of both tiers holds a      *)
(* strip, as after init() and an addStrip for each other slot, with no     *)
(* port connected or with every input connected; the control thread sets   *)
(* parameters, connections are made and broken, and each                   *)
(* process callback runs from its lock to its unlock in one step (the      *)
(* setters take no lock, so they run between callbacks here).              *)
(***************************************************************************)
\* Process callbacks of one tier in one run
MaxRuns == 3

\* Setter calls and changes of connections between the callbacks of one run
MaxSet == 2

\* the values the setters are given
Levels == {Zero, <<1, 2>>}
Balances == {<<-1, 2>>, <<1, 2>>}

\* the signal on a connected input: leg A rises frame by frame, leg B is
\* constant
Signal(n) == [frame \in 1 .. n |-> <<<<frame, 1>>, <<1, 2>>>>]

\* what JACK hands to the callback of a tier: the signal on the inputs
\* that are connected, silence on the others
Inputs(mixbus) ==
    {[chan \in Chans |->
        IF <<mixbus, chan, "inA">> \in jackConnected
        THEN Signal(g_buffersize) ELSE Silence(g_buffersize)]}

\* onJackProcess from lock to unlock; period keeps what it found and left
mixerOnJackProcess(mixbus) ==
    /\ running /\ ~crashed
    /\ rt[mixbus].pc = "idle"
    /\ mutex = "free"
    /\ period[mixbus].runs < MaxRuns
    /\ \E pIn \in Inputs(mixbus) :
       \E m \in {ProcessStrips(mixbus, MAX_CHANNELS, g_buffersize, g_solo,
                               pIn, ClearBuffers(mixbus, g_buffersize,
                                                 Memory(mixbus)))} :
         /\ SetMemory(mixbus, m)
         /\ period' = [period EXCEPT ![mixbus] =
                         [frames |-> g_buffersize,
                          runs |-> period[mixbus].runs + 1,
                          solo |-> g_solo, pIn |-> pIn,
                          before |-> strips(mixbus), after |-> m.strips,
                          connected |-> jackConnected,
                          hist |-> m.hist, out |-> m.out,
                          sends |-> m.sends, norm |-> m.norm]]
    /\ UNCHANGED <<zynaudioplayerVars, shaping, meterVars, jackOut, g_solo, g_bOsc, g_oscClient,
                   g_buffersize, mutex, jackPorts, jackConnected, rt, api,
                   ev, running, crashed, hazard>>

\* the loop of onJackConnect over the strips of a tier
Routed(mixbus, table, connected) ==
    [chan \in Chans |->
       IF table[chan].mem = "null" THEN table[chan]
       ELSE [table[chan] EXCEPT
               !.inRouted =
                   IF \E name \in {"inA", "inB"} :
                          <<mixbus, chan, name>> \in connected
                   THEN 1 ELSE 0,
               !.outRouted =
                   IF \E name \in {"outA", "outB"} :
                          <<mixbus, chan, name>> \in connected
                   THEN 1 ELSE 0]]

\* connections of a strip's ports are made or broken (in, out: what is
\* connected afterwards) and JACK calls onJackConnect of the tier's client
onJackConnect(mixbus, chan, in, out) ==
    /\ running /\ ~crashed
    /\ api.pc = "idle"
    /\ api.calls < MaxSet
    /\ mutex = "free"
    /\ StripPorts(mixbus, chan) \subseteq jackPorts
    /\ \E connected \in
           {(jackConnected \ StripPorts(mixbus, chan))
              \cup (IF in THEN {<<mixbus, chan, "inA">>} ELSE {})
              \cup (IF out THEN {<<mixbus, chan, "outA">>} ELSE {})} :
         /\ connected # jackConnected
         /\ jackConnected' = connected
         /\ IF mixbus = MIXBUS
            THEN /\ g_mixbusStrips' = Routed(mixbus, g_mixbusStrips, connected)
                 /\ UNCHANGED g_channelStrips
            ELSE /\ g_channelStrips' =
                        Routed(mixbus, g_channelStrips, connected)
                 /\ UNCHANGED g_mixbusStrips
    /\ api' = [api EXCEPT !.calls = @ + 1]
    /\ UNCHANGED <<zynaudioplayerVars, shaping, meterVars, jackOut, g_solo, g_fxSends, g_bOsc,
                   g_oscClient, g_buffersize, g_mainNoramliseBuffer, mutex,
                   jackPorts, portBuffer, rt, ev, running, crashed, hazard,
                   period>>

CallSetLevel(channel, mixbus, level) ==
    /\ api.calls < MaxSet
    /\ TableCall("setLevel", mixbus, channel,
                 setLevel(Tables, channel, mixbus, level))

CallSetBalance(channel, mixbus, balance) ==
    /\ api.calls < MaxSet
    /\ TableCall("setBalance", mixbus, channel,
                 setBalance(Tables, channel, mixbus, balance))

CallSetMute(channel, mixbus, mute) ==
    /\ api.calls < MaxSet
    /\ TableCall("setMute", mixbus, channel,
                 setMute(Tables, channel, mixbus, mute))

CallSetMono(channel, mixbus, mono) ==
    /\ api.calls < MaxSet
    /\ TableCall("setMono", mixbus, channel,
                 setMono(Tables, channel, mixbus, mono))

CallSetPhase(channel, mixbus, phase) ==
    /\ api.calls < MaxSet
    /\ TableCall("setPhase", mixbus, channel,
                 setPhase(Tables, channel, mixbus, phase))

CallSetMS(channel, mixbus, enable) ==
    /\ api.calls < MaxSet
    /\ TableCall("setMS", mixbus, channel,
                 setMS(Tables, channel, mixbus, enable))

CallSetSend(channel, send, level) ==
    /\ api.calls < MaxSet
    /\ TableCall("setSend", CHANNEL, channel,
                 setSend(Tables, channel, send, level))

CallSetNormalise(channel, enable) ==
    /\ api.calls < MaxSet
    /\ TableCall("setNormalise", MIXBUS, channel,
                 setNormalise(Tables, channel, enable))

InitDsp ==
    /\ g_ringBuffer = ringBufferInit(ZeroBuffer)
    /\ push = PushIdle
    /\ pop = PopIdle
    /\ absQ = <<>>
    /\ nextId = 1
    /\ overwrote = FALSE
    /\ popStale = FALSE
    /\ fifoBroken = FALSE
    /\ InitGlobals
    /\ jackConnected \in {{}, {<<mixbus, chan, "inA">> :
                                   mixbus \in Tiers, chan \in Chans}}
    /\ g_channelStrips =
           Routed(CHANNEL, [chan \in Chans |-> NewStrip], jackConnected)
    /\ g_mixbusStrips =
           Routed(MIXBUS, [chan \in Chans |-> NewStrip], jackConnected)
    /\ g_buffersize = MaxPeriod
    /\ g_fxSends = [chan \in Chans |->
                      IF chan = 0 THEN NullSend
                      ELSE [mem |-> "live", level |-> One,
                            buffer |-> Silence(g_buffersize)]]
    /\ g_solo = 0
    /\ g_bOsc = 0
    /\ g_oscClient = [i \in 0 .. (MAX_OSC_CLIENTS - 1) |-> 0]
    /\ g_mainNoramliseBuffer = Silence(g_buffersize)
    /\ mutex = "free"
    /\ jackPorts = UNION {StripPorts(mixbus, chan) :
                             mixbus \in Tiers, chan \in Chans}
                     \cup UNION {SendPorts(send) : send \in Chans \ {0}}
    /\ portBuffer = [mixbus \in Tiers |->
                       [chan \in Chans |-> Silence(g_buffersize)]]
    /\ rt = [mixbus \in Tiers |-> RtIdle]
    /\ api = ApiIdle
    /\ ev = EvIdle
    /\ running = TRUE
    /\ crashed = FALSE
    /\ hazard = {}
    /\ period = [mixbus \in Tiers |-> NoPeriod]
    /\ shaping = NoShaping
    /\ g_nDampingCount = 0
    /\ g_nHoldCount = 0
    /\ jackOut = <<>>

NextDsp ==
    \/ \E channel \in Chans, mixbus \in Tiers, level \in Levels :
          CallSetLevel(channel, mixbus, level)
    \/ \E channel \in Chans, mixbus \in Tiers, balance \in Balances :
          CallSetBalance(channel, mixbus, balance)
    \/ \E channel \in Chans, mixbus \in Tiers, on \in {0, 1} :
          \/ CallSetMute(channel, mixbus, on)
          \/ api.calls < MaxSet /\ CallSetSolo(channel, mixbus, on)
          \/ CallSetMono(channel, mixbus, on)
          \/ CallSetPhase(channel, mixbus, on)
          \/ CallSetMS(channel, mixbus, on)
    \/ \E channel \in Chans, send \in Chans, level \in Levels \cup {One} :
          CallSetSend(channel, send, level)
    \/ \E channel \in Chans, enable \in {0, 1} :
          CallSetNormalise(channel, enable)
    \/ \E mixbus \in Tiers, chan \in Chans, in \in BOOLEAN,
          out \in BOOLEAN : onJackConnect(mixbus, chan, in, out)
    \/ \E mixbus \in Tiers : mixerOnJackProcess(mixbus)

SpecDsp == InitDsp /\ [][NextDsp]_vars

\* C12: whenever no control call is in progress, the global solo flag is
\* set exactly when some strip in a slot of either tier has solo = 1 (in
\* the runs where no addStrip has left a freed strip in a slot).
C12_GlobalSoloIsOr ==
    (api.pc = "idle" /\ ~crashed /\ "dangling" \notin hazard)
        => (g_solo = 1 <=>
              \E mixbus \in Tiers, chan \in Chans :
                  /\ strips(mixbus)[chan].mem # "null"
                  /\ strips(mixbus)[chan].solo = 1)

\* C13: neither the process callback nor the event thread ever reads a
\* strip that removeStrip has unregistered or freed (in the runs where no
\* addStrip has left a freed strip in a slot).
C13_RemoveStripAtomic ==
    "dangling" \notin hazard => hazard = {}

\* C14: an addStrip whose port registration fails returns -1 and leaves the
\* ports registered, the slot tables and the sends as they were before the
\* call, the chosen slot NULL.
C14_AddStripUnwinds ==
    [][AddStripRegister(FALSE)
         => /\ api'.ret = -1
            /\ <<g_channelStrips', g_mixbusStrips', g_fxSends',
                 jackPorts'>> = api.before
            /\ (IF api.mixbus = MIXBUS THEN g_mixbusStrips'
                ELSE g_channelStrips')[api.chan].mem = "null"]_vars

\* C15: the process callback never waits for the mutex while the control
\* thread holds it across the registration of ports and the allocation of
\* a send.
C15_RtNeverBlocked ==
    \A mixbus \in Tiers : ~(rt[mixbus].pc = "lock" /\ mutex = "api")

\* the strips the last callback of a tier processed
Processed(mixbus) ==
    {chan \in Chans :
        period[mixbus].frames > 0 /\ period[mixbus].hist[chan] # <<>>}

\* the gain of frame i (from 1) of n on the way from g0 to g1
RampAt(g0, g1, i, n) ==
    <<FAdd(g0[1], Frac(FSub(g1[1], g0[1])[1] * (i - 1),
                       FSub(g1[1], g0[1])[2] * n)),
      FAdd(g0[2], Frac(FSub(g1[2], g0[2])[1] * (i - 1),
                       FSub(g1[2], g0[2])[2] * n))>>

\* C16: in a period a strip is processed in while it is muted, or while
\* global solo is set and the strip is neither solo nor mixbus strip 0, the
\* strip's level is left at 0 and its gain falls in equal steps from the
\* gain of the first frame (not 0 when its level was not) to 0 at the end of
\* the period; when its level was 0 already (it was silenced in the period
\* before) the gain of every frame is 0.  Global solo
\* alone never silences mixbus strip 0: its level becomes the requested one.
C16_SilencedRampsToZero ==
    \A mixbus \in Tiers : \A chan \in Processed(mixbus) :
        LET p == period[mixbus]
            b == p.before[chan]
            cond == \/ b.mute # 0
                    \/ /\ p.solo # 0
                       /\ b.solo = 0
                       /\ ~(mixbus = MIXBUS /\ chan = 0)
        IN  /\ cond =>
                /\ p.after[chan].level = Zero
                /\ \A i \in 1 .. p.frames :
                      p.hist[chan][i].gain
                        = RampAt(p.hist[chan][1].gain, <<Zero, Zero>>, i,
                                 p.frames)
                /\ b.level # Zero => p.hist[chan][1].gain # <<Zero, Zero>>
                /\ b.level = Zero =>
                      \A i \in 1 .. p.frames :
                          p.hist[chan][i].gain = <<Zero, Zero>>
            /\ (mixbus = MIXBUS /\ chan = 0 /\ b.mute = 0) =>
                  p.after[chan].level = b.reqlevel

\* channel strip 0, audible before, is silenced by the solo of another strip
C16_Witness ==
    /\ 0 \in Processed(CHANNEL)
    /\ period[CHANNEL].solo # 0
    /\ period[CHANNEL].before[0].mute = 0
    /\ period[CHANNEL].before[0].solo = 0
    /\ period[CHANNEL].before[0].level # Zero
    /\ period[CHANNEL].hist[0][1].gain # <<Zero, Zero>>
    /\ period[CHANNEL].after[0].level = Zero

\* C17: in a processed period of n frames the gain of frame i (counted
\* from 0) is g0 + (g1 - g0) * i / n on each leg and the frame's post-gain
\* sample is its shaped input times that gain, where g0 is made of the level
\* and balance the strip had, g1 of the requested ones (0 when the strip is
\* silenced), with a = level * (1 - max(0, balance)) and
\* b = level * (1 + min(0, balance)).
C17_GainRamp ==
    \A mixbus \in Tiers : \A chan \in Processed(mixbus) :
        LET p == period[mixbus]
            b == p.before[chan]
            max0(x) == IF x[1] > 0 THEN x ELSE Zero
            min0(x) == IF x[1] < 0 THEN x ELSE Zero
            legs(level, balance) ==
                <<FMul(level, FSub(One, max0(balance))),
                  FMul(level, FAdd(One, min0(balance)))>>
            silenced == \/ b.mute # 0
                        \/ /\ p.solo # 0
                           /\ b.solo = 0
                           /\ ~(mixbus = MIXBUS /\ chan = 0)
            g0 == legs(b.level, b.balance)
            g1 == IF silenced THEN <<Zero, Zero>>
                  ELSE legs(b.reqlevel, b.reqbalance)
        IN  \A i \in 0 .. (p.frames - 1) :
                /\ p.hist[chan][i + 1].gain = RampAt(g0, g1, i + 1, p.frames)
                /\ p.hist[chan][i + 1].post
                     = Scale(Shape(b, p.hist[chan][i + 1].in),
                             RampAt(g0, g1, i + 1, p.frames))

\* a strip fades between two gains that are not 0, its balance off centre
\* before and after, and its input is not silent
C17_Witness ==
    \E mixbus \in Tiers : \E chan \in Processed(mixbus) :
        /\ period[mixbus].before[chan].level # Zero
        /\ period[mixbus].before[chan].balance # Zero
        /\ period[mixbus].after[chan].level # Zero
        /\ period[mixbus].after[chan].level
             # period[mixbus].before[chan].level
        /\ period[mixbus].after[chan].balance # Zero
        /\ period[mixbus].hist[chan][2].post[1] # Zero

RECURSIVE NormalisedSum(_, _, _)
\* the post-gain samples of a frame of the mixbus strips from slot chan up
\* that have the normalise flag, added
NormalisedSum(p, chan, frame) ==
    IF chan >= MAX_CHANNELS THEN <<Zero, Zero>>
    ELSE Mix(IF p.before[chan].normalise # 0
             THEN p.hist[chan][frame].post ELSE <<Zero, Zero>>,
             NormalisedSum(p, chan + 1, frame))

\* C18: in each mixbus period the input of mixbus strip 0 at every frame is
\* the sample of its input port plus the post-gain samples, of the same
\* frame of the same period, of the other mixbus strips whose normalise flag
\* is set; strips with the flag clear add nothing, nothing of the current
\* period is missed and nothing of an earlier one is included.
C18_MainSeesNormalised ==
    period[MIXBUS].frames > 0 =>
        \A frame \in 1 .. period[MIXBUS].frames :
            period[MIXBUS].hist[0][frame].in
              = Mix(period[MIXBUS].pIn[0][frame],
                    NormalisedSum(period[MIXBUS], 1, frame))

\* a second mixbus period in which a normalised strip adds a sample that is
\* not 0 to the input of the main strip
C18_Witness ==
    /\ period[MIXBUS].runs >= 2
    /\ \E chan \in Chans \ {0} : \E frame \in 1 .. period[MIXBUS].frames :
          /\ period[MIXBUS].before[chan].normalise # 0
          /\ period[MIXBUS].hist[chan][frame].post[1] # Zero
          /\ period[MIXBUS].hist[0][frame].in
               # period[MIXBUS].pIn[0][frame]

\* C19: when a callback returns from a period in which no input port of any
\* strip was connected, the buffer of every connected direct output of its
\* tier and every send buffer hold 0 in every frame, whatever they held when
\* the callback started.
C19_SilenceOnAbsence ==
    \A mixbus \in Tiers :
        LET p == period[mixbus]
        IN  (/\ p.frames > 0
             /\ \A port \in p.connected : port[3] \notin {"inA", "inB"})
                => /\ \A chan \in Chans :
                         (/\ p.before[chan].mem # "null"
                          /\ <<mixbus, chan, "outA">> \in p.connected)
                            => p.out[chan] = Silence(p.frames)
                   /\ \A send \in Chans :
                         p.sends[send].mem # "null"
                            => p.sends[send].buffer = Silence(p.frames)

RECURSIVE SendSum(_, _, _, _, _)
\* what the channel strips from slot chan up add to a send at a frame, when
\* strip c adds its shaped input times factor[c], times its send level,
\* times the level of the send
SendSum(p, send, chan, frame, factor) ==
    IF chan >= MAX_CHANNELS THEN <<Zero, Zero>>
    ELSE Mix(Scale(Scale(Shape(p.before[chan], p.pIn[chan][frame]),
                         factor[chan]),
                   <<FMul(p.before[chan].send[send], p.sends[send].level),
                     FMul(p.before[chan].send[send], p.sends[send].level)>>),
             SendSum(p, send, chan + 1, frame, factor))

ApiLevels == {<<-1, 2>>, <<1, 2>>, <<2, 1>>}
ApiBalances == {<<-2, 1>>, <<-1, 1>>, <<1, 2>>, <<3, 2>>}

enableDpm(T, start, end, mixbus, enable) ==
    LET lo == IF start > end THEN end ELSE start
        hi == IF start > end THEN start ELSE end
        first == IF lo >= MAX_CHANNELS THEN MAX_CHANNELS - 1 ELSE lo
        last == IF hi >= MAX_CHANNELS THEN MAX_CHANNELS - 1 ELSE hi
    IN  [T EXCEPT !.strips[mixbus] =
           [chan \in Chans |->
              IF chan \in first .. last /\ T.strips[mixbus][chan].mem # "null"
              THEN [T.strips[mixbus][chan] EXCEPT !.enable_dpm = enable]
              ELSE T.strips[mixbus][chan]]]

\* Calls of one run of the control API alone
MaxCtl == 2

\* a call that only changes the slot tables and the solo flag, kept in api
\* when it has returned: the call, its strip and the tables it found
TableCallKept(op, mixbus, chan, T) ==
    /\ ApiCall
    /\ api.calls < MaxCtl
    /\ SetTables(T)
    /\ api' = [ApiIdle EXCEPT !.op = op, !.mixbus = mixbus, !.chan = chan,
                              !.before = Tables, !.calls = api.calls + 1]
    /\ \E dies \in IF Dangling /\ T # Tables THEN BOOLEAN ELSE {FALSE} :
           crashed' = dies
    /\ UNCHANGED <<zynaudioplayerVars, shaping, meterVars, jackOut, g_fxSends, g_bOsc,
                   g_oscClient, g_buffersize, g_mainNoramliseBuffer, mutex,
                   jackPorts, jackConnected, portBuffer, rt, ev, running,
                   hazard, period>>

InitApi ==
    /\ g_ringBuffer = ringBufferInit(ZeroBuffer)
    /\ push = PushIdle
    /\ pop = PopIdle
    /\ absQ = <<>>
    /\ nextId = 1
    /\ overwrote = FALSE
    /\ popStale = FALSE
    /\ fifoBroken = FALSE
    /\ InitGlobals
    /\ g_channelStrips \in [Chans -> {NewStrip, NullStrip}]
    /\ g_mixbusStrips \in [Chans -> {NewStrip, NullStrip}]
    /\ g_mixbusStrips[0] = NewStrip
    /\ g_buffersize = 1
    /\ g_fxSends = [chan \in Chans |->
                      IF chan = 0 \/ g_mixbusStrips[chan] = NullStrip
                      THEN NullSend
                      ELSE [mem |-> "live", level |-> One,
                            buffer |-> Silence(g_buffersize)]]
    /\ g_solo = 0
    /\ g_bOsc = 0
    /\ g_oscClient = [i \in 0 .. (MAX_OSC_CLIENTS - 1) |-> 0]
    /\ g_mainNoramliseBuffer = Silence(g_buffersize)
    /\ mutex = "free"
    /\ jackPorts =
           UNION {IF strips(mixbus)[chan] = NewStrip
                  THEN StripPorts(mixbus, chan) ELSE {} :
                     mixbus \in Tiers, chan \in Chans}
             \cup UNION {SendPorts(send) :
                            send \in {c \in Chans :
                                         g_fxSends[c].mem = "live"}}
    /\ jackConnected = {}
    /\ portBuffer = [mixbus \in Tiers |->
                       [chan \in Chans |-> Silence(g_buffersize)]]
    /\ rt = [mixbus \in Tiers |-> RtIdle]
    /\ api = ApiIdle
    /\ ev = EvIdle
    /\ running = TRUE
    /\ crashed = FALSE
    /\ hazard = {}
    /\ period = [mixbus \in Tiers |-> NoPeriod]
    /\ shaping = NoShaping
    /\ g_nDampingCount = 0
    /\ g_nHoldCount = 0
    /\ jackOut = <<>>

NextApi ==
    \/ \E channel \in 0 .. MAX_CHANNELS, mixbus \in Tiers,
          level \in ApiLevels :
          TableCallKept("setLevel", mixbus, channel,
                        setLevel(Tables, channel, mixbus, level))
    \/ \E channel \in 0 .. MAX_CHANNELS, mixbus \in Tiers,
          balance \in ApiBalances :
          TableCallKept("setBalance", mixbus, channel,
                        setBalance(Tables, channel, mixbus, balance))
    \/ \E channel \in 0 .. MAX_CHANNELS, mixbus \in Tiers, on \in {0, 1} :
          \/ TableCallKept("setMute", mixbus, channel,
                           setMute(Tables, channel, mixbus, on))
          \/ TableCallKept("setSolo", mixbus, channel,
                           setSolo(Tables, channel, mixbus, on))
          \/ TableCallKept("setMono", mixbus, channel,
                           setMono(Tables, channel, mixbus, on))
          \/ TableCallKept("setPhase", mixbus, channel,
                           setPhase(Tables, channel, mixbus, on))
          \/ TableCallKept("setMS", mixbus, channel,
                           setMS(Tables, channel, mixbus, on))
    \/ \E channel \in 0 .. MAX_CHANNELS, send \in 0 .. MAX_CHANNELS,
          level \in ApiLevels :
          TableCallKept("setSend", CHANNEL, channel,
                        setSend(Tables, channel, send, level))
    \/ \E channel \in 0 .. MAX_CHANNELS, enable \in {0, 1} :
          TableCallKept("setNormalise", MIXBUS, channel,
                        setNormalise(Tables, channel, enable))
    \/ \E channel \in 0 .. MAX_CHANNELS, mixbus \in Tiers :
          TableCallKept("reset", mixbus, channel,
                        reset(Tables, channel, mixbus))
    \/ \E start \in 0 .. MAX_CHANNELS, end \in 0 .. MAX_CHANNELS,
          mixbus \in Tiers, enable \in {0, 1} :
          TableCallKept("enableDpm", mixbus,
                        IF start > end THEN end ELSE start,
                        enableDpm(Tables, start, end, mixbus, enable))
    \/ \E client \in OscAddresses :
          \/ api.calls < MaxCtl /\ CallAddOscClient(client)
          \/ api.calls < MaxCtl /\ CallRemoveOscClient(client)

SpecApi == InitApi /\ [][NextApi]_vars

(***************************************************************************)
(* The gain ramp of one strip, statement by statement (SpecRamp): the      *)
(* callback of the mixbus tier works on the main mix strip while the       *)
(* control thread, which takes no mutex, calls setLevel, setBalance and    *)
(* setMute.  rt[mixbus].cur and rt[mixbus].req are curLevelA/B and         *)
(* reqLevelA/B; period[mixbus].rampEnd is the gain the last period faded   *)
(* to.                                                                     *)
(***************************************************************************)
InitRamp ==
    /\ InitApi
    /\ g_channelStrips = [chan \in Chans |-> NullStrip]
    /\ g_mixbusStrips = [chan \in Chans |->
                           IF chan = 0 THEN NewStrip ELSE NullStrip]

rampFrame == <<zynaudioplayerVars, shaping, meterVars, jackOut, g_solo,
               g_fxSends, g_bOsc, g_oscClient, g_buffersize,
               g_mainNoramliseBuffer, mutex, jackPorts, jackConnected,
               portBuffer, api, ev, running, crashed, hazard>>

\* if (strip->inRouted || mixbus) { curLevelA = ...; curLevelB = ...;
RampCur(mixbus) ==
    /\ ~crashed
    /\ rt[mixbus].pc = "strip"
    /\ LET strip == strips(mixbus)[rt[mixbus].chan]
       IN  rt' = [rt EXCEPT ![mixbus] =
                    IF strip.inRouted # 0 \/ mixbus = MIXBUS
                    THEN [pc |-> "mute", chan |-> rt[mixbus].chan,
                          stale |-> FALSE,
                          cur |-> LegGains(strip.level, strip.balance),
                          req |-> <<Zero, Zero>>]
                    ELSE [pc |-> "loop", chan |-> rt[mixbus].chan,
                          stale |-> FALSE]]
    /\ UNCHANGED <<rampFrame, g_channelStrips, g_mixbusStrips, period>>

\* if (strip->mute || g_solo && ...) { strip->level = 0; reqLevelA = 0.0;
\* reqLevelB = 0.0; } else
RampMute(mixbus) ==
    /\ ~crashed
    /\ rt[mixbus].pc = "mute"
    /\ LET chan == rt[mixbus].chan
           strip == strips(mixbus)[chan]
       IN  IF Silenced(strip, mixbus, chan, g_solo)
           THEN /\ SetStrip(mixbus, chan, [strip EXCEPT !.level = Zero])
                /\ rt' = [rt EXCEPT ![mixbus].pc = "frames",
                                    ![mixbus].req = <<Zero, Zero>>]
           ELSE /\ rt' = [rt EXCEPT ![mixbus].pc = "reqA"]
                /\ UNCHANGED <<g_channelStrips, g_mixbusStrips>>
    /\ UNCHANGED <<rampFrame, period>>

\* reqLevelA = strip->reqbalance > 0.0 ? strip->reqlevel * (1 -
\* strip->reqbalance) : strip->reqlevel
RampReqA(mixbus) ==
    /\ ~crashed
    /\ rt[mixbus].pc = "reqA"
    /\ LET strip == strips(mixbus)[rt[mixbus].chan]
       IN  rt' = [rt EXCEPT
                    ![mixbus].pc = "reqB",
                    ![mixbus].req[1] =
                        LegGains(strip.reqlevel, strip.reqbalance)[1]]
    /\ UNCHANGED <<rampFrame, g_channelStrips, g_mixbusStrips, period>>

\* reqLevelB = strip->reqbalance < 0.0 ? strip->reqlevel * (1 +
\* strip->reqbalance) : strip->reqlevel
RampReqB(mixbus) ==
    /\ ~crashed
    /\ rt[mixbus].pc = "reqB"
    /\ LET strip == strips(mixbus)[rt[mixbus].chan]
       IN  rt' = [rt EXCEPT
                    ![mixbus].pc = "latchLevel",
                    ![mixbus].req[2] =
                        LegGains(strip.reqlevel, strip.reqbalance)[2]]
    /\ UNCHANGED <<rampFrame, g_channelStrips, g_mixbusStrips, period>>

\* strip->level = strip->reqlevel
RampLatchLevel(mixbus) ==
    /\ ~crashed
    /\ rt[mixbus].pc = "latchLevel"
    /\ LET chan == rt[mixbus].chan
           strip == strips(mixbus)[chan]
       IN  SetStrip(mixbus, chan, [strip EXCEPT !.level = strip.reqlevel])
    /\ rt' = [rt EXCEPT ![mixbus].pc = "latchBalance"]
    /\ UNCHANGED <<rampFrame, period>>

\* strip->balance = strip->reqbalance
RampLatchBalance(mixbus) ==
    /\ ~crashed
    /\ rt[mixbus].pc = "latchBalance"
    /\ LET chan == rt[mixbus].chan
           strip == strips(mixbus)[chan]
       IN  SetStrip(mixbus, chan,
                    [strip EXCEPT !.balance = strip.reqbalance])
    /\ rt' = [rt EXCEPT ![mixbus].pc = "frames"]
    /\ UNCHANGED <<rampFrame, period>>

\* the frame loop: the gain of each leg goes from cur to req in frames steps
RampFrames(mixbus) ==
    /\ ~crashed
    /\ rt[mixbus].pc = "frames"
    /\ period' = [period EXCEPT ![mixbus] =
                    [frames |-> g_buffersize,
                     runs |-> period[mixbus].runs + 1,
                     rampEnd |-> rt[mixbus].req]]
    /\ rt' = [rt EXCEPT ![mixbus] = [pc |-> "loop", chan |-> rt[mixbus].chan,
                                     stale |-> FALSE]]
    /\ UNCHANGED <<rampFrame, g_channelStrips, g_mixbusStrips>>

NextRamp ==
    \/ period[MIXBUS].runs < MaxRuns /\ RtEnter(MIXBUS)
    \/ RtLock(MIXBUS, SilentInput)
    \/ RtLoad(MIXBUS)
    \/ RampCur(MIXBUS)
    \/ RampMute(MIXBUS)
    \/ RampReqA(MIXBUS)
    \/ RampReqB(MIXBUS)
    \/ RampLatchLevel(MIXBUS)
    \/ RampLatchBalance(MIXBUS)
    \/ RampFrames(MIXBUS)
    \/ RtUnlock(MIXBUS)
    \/ \E level \in Levels : CallSetLevel(0, MIXBUS, level)
    \/ \E balance \in Balances : CallSetBalance(0, MIXBUS, balance)
    \/ \E mute \in {0, 1} : CallSetMute(0, MIXBUS, mute)

SpecRamp == InitRamp /\ [][NextRamp]_vars

(***************************************************************************)
(* The peak meters (SpecDpm): the two tiers' callbacks, which share the    *)
(* counters g_nDampingCount and g_nHoldCount, the event thread, which      *)
(* publishes the meters without the mutex, and enableDpm, with the main    *)
(* mix strip the only strip there is.  Each JACK cycle runs the callback   *)
(* of each tier once, in either order.  A strip carries its meters dpmA,   *)
(* dpmB, holdA, holdB and their published mirrors.  period[mixbus] counts  *)
(* the tier's callbacks (runs), those since the last one that damped       *)
(* (since), and records a damping that came before g_nDampingPeriod others *)
(* had passed (early).                                                     *)
(***************************************************************************)
\* Callbacks of one tier in one run
MaxDpmRuns == 2

\* g_fDpmDecay * g_samplerate / g_buffersize / 15 at 48000 Hz, 1024 frames
g_nDampingPeriod == 2

g_fDpmDecay == <<9, 10>>

\* fSampleA, fSampleB of the frame when they reach the meter
DpmSamples == {<<Zero, Zero>>, << <<1, 2>>, <<-1, 2>> >>}

\* what malloc's memory may hold where addStrip leaves the meters unwritten
DpmJunk == {Zero, <<1, 4>>}

DpmMeters == <<"dpmA", "dpmB", "holdA", "holdB">>
DpmMirror == [dpmA |-> "dpmAlast", dpmB |-> "dpmBlast",
              holdA |-> "holdAlast", holdB |-> "holdBlast"]

FGreater(x, y) == x[1] * y[2] > y[1] * x[2]
FAbs(x) == <<Abs(x[1]), x[2]>>

\* (int)(100000 * x)
Int100000(x) ==
    LET n == 100000 * x[1]
    IN  IF n >= 0 THEN n \div x[2] ELSE 0 - ((0 - n) \div x[2])

\* the strip addStrip builds, meters and mirrors included
DpmStrip(inRouted, junk) ==
    [f \in DOMAIN NewStrip \cup {"dpmA", "dpmB", "holdA", "holdB", "dpmAlast",
                                 "dpmBlast", "holdAlast", "holdBlast"} |->
       IF f = "inRouted" THEN inRouted
       ELSE IF f \in DOMAIN NewStrip THEN NewStrip[f]
       ELSE IF f \in {"dpmA", "dpmB", "holdA", "holdB"} THEN junk
       ELSE <<100, 1>>]

DpmIdle == [pc |-> "test", mixbus |-> CHANNEL, chan |-> 0, meter |-> 1,
            sent |-> Zero, stored |-> Zero, emitted |-> FALSE]

DpmNoPeriod == [frames |-> 0, runs |-> 0, ran |-> FALSE, since |-> 0,
                early |-> FALSE]

InitDpm ==
    /\ g_ringBuffer = ringBufferInit(ZeroBuffer)
    /\ push = PushIdle
    /\ pop = PopIdle
    /\ absQ = <<>>
    /\ nextId = 1
    /\ overwrote = FALSE
    /\ popStale = FALSE
    /\ fifoBroken = FALSE
    /\ InitGlobals
    /\ \E junk \in DpmJunk :
          /\ g_channelStrips = [chan \in Chans |-> NullStrip]
          /\ g_mixbusStrips = [chan \in Chans |->
                                 IF chan = 0 THEN DpmStrip(0, junk)
                                 ELSE NullStrip]
    /\ g_fxSends = [chan \in Chans |-> NullSend]
    /\ g_solo = 0
    /\ g_bOsc = 1
    /\ g_oscClient = [i \in 0 .. (MAX_OSC_CLIENTS - 1) |->
                        IF i = 0 THEN 1 ELSE 0]
    /\ g_buffersize = 1
    /\ g_mainNoramliseBuffer = Silence(g_buffersize)
    /\ mutex = "free"
    /\ jackPorts = StripPorts(MIXBUS, 0)
    /\ jackConnected = {}
    /\ portBuffer = [mixbus \in Tiers |->
                       [chan \in Chans |-> Silence(g_buffersize)]]
    /\ rt = [mixbus \in Tiers |-> RtIdle]
    /\ api = ApiIdle
    /\ ev = DpmIdle
    /\ running = TRUE
    /\ crashed = FALSE
    /\ hazard = {}
    /\ period = [mixbus \in Tiers |-> DpmNoPeriod]
    /\ g_nDampingCount = 0
    /\ g_nHoldCount = 0
    /\ shaping = NoShaping
    /\ jackOut = <<>>

\* lines 337-368 for one strip and a period of one frame
ProcessDpm(strip, mixbus, sample) ==
    IF strip.inRouted # 0 \/ mixbus = MIXBUS
    THEN LET a == FAbs(sample[1])
             b == FAbs(sample[2])
             dpmA == IF FGreater(a, strip.dpmA) THEN a ELSE strip.dpmA
             dpmB == IF FGreater(b, strip.dpmB) THEN b ELSE strip.dpmB
             peaked ==
                 IF strip.enable_dpm # 0
                 THEN [strip EXCEPT
                         !.dpmA = dpmA, !.dpmB = dpmB,
                         !.holdA = IF FGreater(dpmA, @) THEN dpmA ELSE @,
                         !.holdB = IF FGreater(dpmB, @) THEN dpmB ELSE @]
                 ELSE strip
             held ==
                 IF g_nHoldCount = 0
                 THEN [peaked EXCEPT !.holdA = peaked.dpmA,
                                     !.holdB = peaked.dpmB]
                 ELSE peaked
         IN  IF g_nDampingCount = 0
             THEN [held EXCEPT !.dpmA = FMul(@, g_fDpmDecay),
                               !.dpmB = FMul(@, g_fDpmDecay)]
             ELSE held
    ELSE IF strip.enable_dpm # 0
         THEN [strip EXCEPT !.dpmA = <<-200, 1>>, !.dpmB = <<-200, 1>>,
                            !.holdA = <<-200, 1>>, !.holdB = <<-200, 1>>]
         ELSE strip

\* one callback of a tier as far as the meters go: it holds the mutex from
\* its first statement to its last
onJackProcessMeters(mixbus, sample) ==
    LET other == IF mixbus = MIXBUS THEN CHANNEL ELSE MIXBUS
        metered == [chan \in Chans |->
                      IF strips(mixbus)[chan].mem = "null"
                      THEN strips(mixbus)[chan]
                      ELSE ProcessDpm(strips(mixbus)[chan], mixbus, sample)]
    IN  /\ running /\ ~crashed
        /\ mutex = "free"
        /\ period[mixbus].runs < MaxDpmRuns
        /\ ~period[mixbus].ran \/ period[other].ran
        /\ IF mixbus = MIXBUS
           THEN g_mixbusStrips' = metered /\ UNCHANGED g_channelStrips
           ELSE g_channelStrips' = metered /\ UNCHANGED g_mixbusStrips
        /\ g_nDampingCount' = IF g_nDampingCount = 0 THEN g_nDampingPeriod
                              ELSE g_nDampingCount - 1
        /\ g_nHoldCount' = IF g_nHoldCount = 0 THEN g_nDampingPeriod * 20
                           ELSE g_nHoldCount - 1
        /\ period' =
              [m \in Tiers |->
                 IF m = mixbus
                 THEN [frames |-> g_buffersize,
                       runs |-> period[m].runs + 1,
                       ran |-> TRUE,
                       since |-> IF g_nDampingCount = 0 THEN 0
                                 ELSE period[m].since + 1,
                       early |-> \/ period[m].early
                                 \/ /\ g_nDampingCount = 0
                                    /\ period[m].runs > period[m].since
                                    /\ period[m].since < g_nDampingPeriod]
                 ELSE [period[m] EXCEPT
                         !.ran = period[m].ran /\ ~period[mixbus].ran]]
        /\ UNCHANGED <<zynaudioplayerVars, shaping, jackOut, g_fxSends,
                       g_solo, g_bOsc, g_oscClient, g_buffersize,
                       g_mainNoramliseBuffer, mutex, jackPorts,
                       jackConnected, portBuffer, rt, api, ev, running,
                       crashed, hazard>>

\* the next meter of the event thread's loop
DpmAdvance(e) ==
    IF e.meter < 4 THEN [e EXCEPT !.pc = "test", !.meter = e.meter + 1]
    ELSE IF e.mixbus = CHANNEL
         THEN [e EXCEPT !.pc = "test", !.mixbus = MIXBUS, !.meter = 1]
         ELSE [e EXCEPT !.pc = "test", !.mixbus = CHANNEL, !.meter = 1,
                        !.chan = (e.chan + 1) % MAX_CHANNELS]

dpmFrame == <<zynaudioplayerVars, shaping, meterVars, jackOut, g_fxSends,
              g_solo, g_bOsc, g_oscClient, g_buffersize,
              g_mainNoramliseBuffer, mutex, jackPorts, jackConnected,
              portBuffer, rt, api, running, crashed, hazard, period>>

\* if (strips[chan]) if ((int)(100000 * last) != (int)(100000 * dpm))
EvDpmTest ==
    /\ running /\ ~crashed
    /\ ev.pc = "test"
    /\ LET strip == strips(ev.mixbus)[ev.chan]
           meter == DpmMeters[ev.meter]
       IN  ev' = IF g_bOsc = 0 \/ strip.mem = "null"
                 THEN DpmAdvance([ev EXCEPT !.meter = 4])
                 ELSE IF Int100000(strip[DpmMirror[meter]])
                            # Int100000(strip[meter])
                      THEN [ev EXCEPT !.pc = "send"]
                      ELSE DpmAdvance(ev)
    /\ UNCHANGED <<dpmFrame, g_channelStrips, g_mixbusStrips>>

\* sendOscFloat(g_oscdpm, convertToDBFS(strip->dpmA)): ev.sent is the linear
\* value the message is made from
EvDpmSend ==
    /\ running /\ ~crashed
    /\ ev.pc = "send"
    /\ ev' = [ev EXCEPT
                !.pc = "store",
                !.sent = strips(ev.mixbus)[ev.chan][DpmMeters[ev.meter]]]
    /\ UNCHANGED <<dpmFrame, g_channelStrips, g_mixbusStrips>>

\* strip->dpmAlast = strip->dpmA
EvDpmStore ==
    /\ running /\ ~crashed
    /\ ev.pc = "store"
    /\ LET strip == strips(ev.mixbus)[ev.chan]
           meter == DpmMeters[ev.meter]
       IN  /\ SetStrip(ev.mixbus, ev.chan,
                       [strip EXCEPT ![DpmMirror[meter]] = strip[meter]])
           /\ ev' = DpmAdvance([ev EXCEPT !.stored = strip[meter],
                                          !.emitted = TRUE])
    /\ UNCHANGED dpmFrame

NextDpm ==
    \/ \E mixbus \in Tiers, sample \in DpmSamples :
          onJackProcessMeters(mixbus, sample)
    \/ EvDpmTest
    \/ EvDpmSend
    \/ EvDpmStore
    \/ \E enable \in {0, 1} :
          TableCallKept("enableDpm", MIXBUS, 0,
                        enableDpm(Tables, 0, 0, MIXBUS, enable))

SpecDpm == InitDpm /\ [][NextDpm]_vars

(***************************************************************************)
(* The output of the player's process callback (SpecOut): what              *)
(* onJackProcess leaves in the buffer of an output port once the pop has    *)
(* returned count frames.  jackOut.mem is the memory from the start of the  *)
(* port buffer: nFrames samples of the buffer, then what lies behind it.    *)
(***************************************************************************)
\* Frames of the longest period
MaxOut == 4

\* sizeof(jack_default_audio_sample_t)
SAMPLE_SIZE == 4

OutPorts == {"A", "B"}

OutLevels == {Zero, <<1, 2>>, One}

\* what the buffers hold when JACK hands them over
OutJunk == {<<7, 1>>, <<-7, 1>>}

\* the frames the pop returns, one sample for each port
PoppedFrames(port, count) ==
    [i \in 1 .. count |-> <<IF port = "A" THEN i ELSE 0 - i, 1>>]

InitOut ==
    /\ g_ringBuffer = ringBufferInit(ZeroBuffer)
    /\ push = PushIdle
    /\ pop = PopIdle
    /\ absQ = <<>>
    /\ nextId = 1
    /\ overwrote = FALSE
    /\ popStale = FALSE
    /\ fifoBroken = FALSE
    /\ InitGlobals
    /\ g_channelStrips = [chan \in Chans |-> NullStrip]
    /\ g_mixbusStrips = [chan \in Chans |-> NullStrip]
    /\ g_fxSends = [chan \in Chans |-> NullSend]
    /\ g_solo = 0
    /\ g_bOsc = 0
    /\ g_oscClient = [i \in 0 .. (MAX_OSC_CLIENTS - 1) |-> 0]
    /\ g_buffersize = 1
    /\ g_mainNoramliseBuffer = <<>>
    /\ mutex = "free"
    /\ jackPorts = {}
    /\ jackConnected = {}
    /\ portBuffer = [mixbus \in Tiers |-> [chan \in Chans |-> <<>>]]
    /\ rt = [mixbus \in Tiers |-> RtIdle]
    /\ api = ApiIdle
    /\ ev = EvIdle
    /\ running = FALSE
    /\ crashed = FALSE
    /\ hazard = {}
    /\ period = [mixbus \in Tiers |-> NoPeriod]
    /\ g_nDampingCount = 0
    /\ g_nHoldCount = 0
    /\ shaping = NoShaping
    /\ \E nFrames \in 1 .. MaxOut, level \in OutLevels, junk \in OutJunk :
         \E count \in 0 .. nFrames :
            jackOut = [pc |-> "pop", nFrames |-> nFrames, count |-> count,
                       g_fLevel |-> level, junk |-> junk, faulted |-> FALSE,
                       mem |-> [port \in OutPorts |->
                                  [i \in 1 .. (nFrames + 3 * MaxOut) |->
                                     junk]]]

\* memset(p + first, 0, n * sizeof(jack_default_audio_sample_t)), p a
\* pointer to samples: n samples from the sample of index first on
MemsetForward(mem, first, n) ==
    [i \in DOMAIN mem |-> IF first < i /\ i <= first + n THEN Zero ELSE mem[i]]

\* lines 305-320 for one port: the pop stores count frames at the start of
\* the buffer, the loop scales them by g_fLevel, the memset clears
\* nFrames - count samples from pOut + count * sizeof(sample) on
OutputAfterPop(o, port) ==
    LET popped == PoppedFrames(port, o.count)
        scaled == [i \in DOMAIN o.mem[port] |->
                     IF i <= o.count THEN FMul(popped[i], o.g_fLevel)
                     ELSE o.mem[port][i]]
    IN  MemsetForward(scaled, o.count * SAMPLE_SIZE, o.nFrames - o.count)

\* the memset reaches past the end of the port buffer
OutOfBounds(o) ==
    /\ o.nFrames - o.count > 0
    /\ o.count * SAMPLE_SIZE + (o.nFrames - o.count) > o.nFrames

\* The callback from its pop to its last memset.  A write behind the buffer
\* is an invalid access: it lands in the memory behind, or the process dies
onJackProcessOutput ==
    /\ jackOut.pc = "pop"
    /\ \E dies \in IF OutOfBounds(jackOut) THEN BOOLEAN ELSE {FALSE} :
         jackOut' = [jackOut EXCEPT
                       !.pc = "done",
                       !.faulted = dies,
                       !.mem = [port \in OutPorts |->
                                  OutputAfterPop(jackOut, port)]]
    /\ UNCHANGED <<zynaudioplayerVars, g_channelStrips, g_mixbusStrips,
                   g_fxSends, g_solo, g_bOsc, g_oscClient, g_buffersize,
                   g_mainNoramliseBuffer, mutex, jackPorts, jackConnected,
                   portBuffer, rt, api, ev, running, crashed, hazard,
                   period, shaping, meterVars>>

NextOut == onJackProcessOutput

SpecOut == InitOut /\ [][NextOut]_vars

(***************************************************************************)
(* The shaping of one sample (SpecShape): phase reverse, M+S decoding and  *)
(* mono, as the frame loop of onJackProcess does them, applied to a stereo *)
(* pair and then to its own result, as when the output of one strip feeds  *)
(* a strip with the same settings.                                         *)
(***************************************************************************)
\* Times a sample goes through the shaping
MaxPasses == 2

\* the values of one leg of the sample
LegValues == {<<-1, 1>>, <<-1, 2>>, Zero, <<1, 2>>, One, <<2, 1>>}

InitShape ==
    /\ g_ringBuffer = ringBufferInit(ZeroBuffer)
    /\ push = PushIdle
    /\ pop = PopIdle
    /\ absQ = <<>>
    /\ nextId = 1
    /\ overwrote = FALSE
    /\ popStale = FALSE
    /\ fifoBroken = FALSE
    /\ InitGlobals
    /\ g_channelStrips = [chan \in Chans |-> NullStrip]
    /\ g_mixbusStrips = [chan \in Chans |-> NullStrip]
    /\ g_fxSends = [chan \in Chans |-> NullSend]
    /\ g_solo = 0
    /\ g_bOsc = 0
    /\ g_oscClient = [i \in 0 .. (MAX_OSC_CLIENTS - 1) |-> 0]
    /\ g_buffersize = 1
    /\ g_mainNoramliseBuffer = <<>>
    /\ mutex = "free"
    /\ jackPorts = {}
    /\ jackConnected = {}
    /\ portBuffer = [mixbus \in Tiers |-> [chan \in Chans |-> <<>>]]
    /\ rt = [mixbus \in Tiers |-> RtIdle]
    /\ api = ApiIdle
    /\ ev = EvIdle
    /\ running = FALSE
    /\ crashed = FALSE
    /\ hazard = {}
    /\ period = [mixbus \in Tiers |-> NoPeriod]
    /\ g_nDampingCount = 0
    /\ g_nHoldCount = 0
    /\ jackOut = <<>>
    /\ \E phase \in {0, 1}, ms \in {0, 1}, mono \in {0, 1},
          a \in LegValues, b \in LegValues :
          shaping = [strip |-> [phase |-> phase, ms |-> ms, mono |-> mono],
                     pIn |-> <<a, b>>, fSample |-> <<a, b>>, passes |-> 0]

\* lines 282-297 of the frame loop, on the sample the pass before left
ShapeSample ==
    /\ shaping.passes < MaxPasses
    /\ shaping' = [shaping EXCEPT
                     !.fSample = Shape(shaping.strip, shaping.fSample),
                     !.passes = shaping.passes + 1]
    /\ UNCHANGED <<zynaudioplayerVars, g_channelStrips, g_mixbusStrips,
                   g_fxSends, g_solo, g_bOsc, g_oscClient, g_buffersize,
                   g_mainNoramliseBuffer, mutex, jackPorts, jackConnected,
                   portBuffer, rt, api, ev, running, crashed, hazard,
                   period, meterVars, jackOut>>

NextShape == ShapeSample

SpecShape == InitShape /\ [][NextShape]_vars

\* C21 as claimed: the M/S transform (A, B) -> (A + B, A - B) applied twice
\* to a stereo pair leaves 4 times the pair on each leg.
C21_MSTwiceIsFourTimes ==
    (/\ shaping.passes = 2
     /\ shaping.strip = [phase |-> 0, ms |-> 1, mono |-> 0])
        => shaping.fSample = Scale(shaping.pIn, <<<<4, 1>>, <<4, 1>>>>)

\* C21 amended: the M/S transform applied once to (A, B) leaves
\* (A + B, A - B), and applied twice leaves 2 times the pair on each leg.
C21_MSTwiceIsTwice ==
    shaping.strip = [phase |-> 0, ms |-> 1, mono |-> 0] =>
        /\ shaping.passes = 1 =>
              shaping.fSample = <<FAdd(shaping.pIn[1], shaping.pIn[2]),
                                  FSub(shaping.pIn[1], shaping.pIn[2])>>
        /\ shaping.passes = 2 =>
              shaping.fSample = Scale(shaping.pIn, <<<<2, 1>>, <<2, 1>>>>)

\* a pair with two legs that differ and are not 0 has been decoded twice
C21_Witness ==
    /\ shaping.passes = 2
    /\ shaping.strip = [phase |-> 0, ms |-> 1, mono |-> 0]
    /\ shaping.pIn[1] # Zero
    /\ shaping.pIn[2] # Zero
    /\ shaping.pIn[1] # shaping.pIn[2]

\* C22: an addStrip that adds a strip returns the lowest index of its tier
\* whose slot held no strip when it was called, fills that slot and leaves
\* every other slot of the tier as it was (so the index a removeStrip freed
\* is used again when it is the lowest); addStrip returns -1 at once, and
\* changes nothing, exactly when every slot of the tier holds a strip.
C22_AddStripLowestFree ==
    [][/\ AddStripSend =>
            LET before == api.before[api.mixbus + 1]
                empty == {chan \in Chans : before[chan].mem # "live"}
                after == IF api.mixbus = MIXBUS THEN g_mixbusStrips'
                         ELSE g_channelStrips'
            IN  /\ api'.ret \in empty
                /\ \A chan \in empty : api'.ret <= chan
                /\ after[api'.ret].mem = "live"
                /\ \A chan \in Chans \ {api'.ret} :
                      after[chan].mem = before[chan].mem
       /\ \A mixbus \in Tiers :
            (AddStripAlloc(mixbus) /\ api.pc = "idle") =>
               /\ (\A chan \in Chans : strips(mixbus)[chan].mem = "live")
                     <=> (api'.pc = "idle" /\ api'.ret = -1)
               /\ api'.pc = "idle" =>
                     UNCHANGED <<g_channelStrips, g_mixbusStrips, g_fxSends,
                                 jackPorts>>]_vars

\* C23: once init has returned, slot 0 of the mixbus tier holds the main
\* mix strip in every state; removeStrip(0, mixbus) returns -1 and changes
\* nothing.
C23_MainMixStays ==
    [][/\ running' => g_mixbusStrips'[0].mem = "live"
       /\ RemoveStripCall(0, MIXBUS) =>
             /\ api'.pc = "idle" /\ api'.ret = -1
             /\ UNCHANGED <<g_channelStrips, g_mixbusStrips, g_fxSends,
                            jackPorts>>]_vars

\* C24: when reset has returned from a strip that exists, the strip's level
\* reads 0.8, its balance 0, its mute, mono, phase and solo read off, and
\* every send level of a channel strip reads 0 (the sends have one mode
\* only, after the fader).
C24_ResetDefaults ==
    (/\ api.pc = "idle"
     /\ api.op = "reset"
     /\ ~NoStrip(api.before, api.chan, api.mixbus))
        => /\ getLevel(Tables, api.chan, api.mixbus) = <<4, 5>>
           /\ getBalance(Tables, api.chan, api.mixbus) = Zero
           /\ getMute(Tables, api.chan, api.mixbus) = 0
           /\ getMono(Tables, api.chan, api.mixbus) = 0
           /\ getPhase(Tables, api.chan, api.mixbus) = 0
           /\ getSolo(Tables, api.chan, api.mixbus) = 0
           /\ api.mixbus = CHANNEL =>
                 \A send \in Chans : getSend(Tables, api.chan, send) = Zero

\* reset has returned from a channel strip one send level of which had
\* been set
C24_Witness ==
    /\ api.pc = "idle"
    /\ api.op = "reset"
    /\ api.mixbus = CHANNEL
    /\ ~NoStrip(api.before, api.chan, CHANNEL)
    /\ \E send \in Chans : getSend(api.before, api.chan, send) # Zero

\* C25: when a control call has returned that was given a strip index of
\* MAX_CHANNELS or more, or the index of an empty slot (for enableDpm: a
\* range that starts at MAX_CHANNELS or above), the slot tables and the solo
\* flag are as the call found them, and the getters of that index read 0.
C25_InvalidIndexIgnored ==
    (/\ api.pc = "idle"
     /\ api.op \in {"setLevel", "setBalance", "setMute", "setSolo", "setMono",
                    "setPhase", "setMS", "setSend", "setNormalise", "reset",
                    "enableDpm"}
     /\ IF api.op = "enableDpm"
        THEN api.chan >= MAX_CHANNELS
        ELSE NoStrip(api.before, api.chan, api.mixbus))
        => /\ Tables = api.before
           /\ api.op # "enableDpm" =>
                 /\ getLevel(Tables, api.chan, api.mixbus) = Zero
                 /\ getBalance(Tables, api.chan, api.mixbus) = Zero
                 /\ getMute(Tables, api.chan, api.mixbus) = 0
                 /\ getSolo(Tables, api.chan, api.mixbus) = 0
                 /\ getMono(Tables, api.chan, api.mixbus) = 0
                 /\ getPhase(Tables, api.chan, api.mixbus) = 0

\* C26: after any sequence of control calls the requested level of every
\* strip and every send level lie in 0 .. 1, and every requested balance lies
\* in -1 .. 1.
C26_ValuesInRange ==
    \A mixbus \in Tiers, chan \in Chans :
        LET strip == strips(mixbus)[chan]
        IN  /\ 0 <= strip.reqlevel[1]
            /\ strip.reqlevel[1] <= strip.reqlevel[2]
            /\ Abs(strip.reqbalance[1]) <= strip.reqbalance[2]
            /\ \A send \in Chans :
                   /\ 0 <= strip.send[send][1]
                   /\ strip.send[send][1] <= strip.send[send][2]

\* C27: a call of addOscClient that returns leaves the slot tables (level,
\* balance, mute, mono, phase and solo of every strip) and the global solo
\* flag as they were.
C27_AddOscClientOnlyReemits ==
    [][\A client \in OscAddresses :
          (CallAddOscClient(client) /\ ~crashed') =>
              UNCHANGED <<g_channelStrips, g_mixbusStrips, g_solo>>]_vars

\* C28: after any sequence of addOscClient and removeOscClient calls that
\* returned, meter publishing is enabled exactly when some client slot holds
\* an address.
C28_OscEnabledIffClient ==
    ~crashed =>
        (g_bOsc = 1 <=> \E i \in DOMAIN g_oscClient : g_oscClient[i] # 0)

\* C29: a callback that finds play_state Playing, carries no stop request
\* and leaves play_state Stopped has output, in order, every frame pushed
\* since the last reset of the ring buffer.
C29_StopsOnlyAtEnd ==
    [][\A nFrames \in 1 .. MaxPeriod, midi \in MidiEvents :
          (/\ onJackProcess(nFrames, midi)
           /\ PlayStateAtEntry = PLAYING
           /\ midi = <<>> \/ midi[1] # 68
           /\ g_nPlayState' = STOPPED)
              => /\ pending' = <<>>
                 /\ ~garbled']_vars

\* C30: whenever the reader resets the ring buffer, on a seek or after its
\* loop, play_state is neither Playing nor Stopping.
C30_ResetOnlyWhilePaused ==
    [][(FtReset \/ FtClose) => g_nPlayState \notin {PLAYING, STOPPING}]_vars

\* C38: when reset has returned, every strip of either tier other than the
\* one it named is as the call found it (level, balance, mute, mono, phase,
\* solo and sends).
C38_ResetTouchesOneStrip ==
    (api.pc = "idle" /\ api.op = "reset")
        => \A mixbus \in Tiers, chan \in Chans :
               (mixbus # api.mixbus \/ chan # api.chan)
                   => Tables.strips[mixbus][chan]
                          = api.before.strips[mixbus][chan]

\* C39: a call of addOscClient with a valid address and a free client slot
\* goes through no empty strip slot (the process does not fault) and returns
\* the index of a client slot that was free.
C39_AddOscClientSkipsEmpty ==
    [][\A client \in OscAddresses \ {-1} :
          (CallAddOscClient(client) /\ FreeClients # {})
              => /\ ~crashed'
                 /\ api'.ret \in FreeClients]_vars

\* C40: between control calls that all succeeded, effect send s (s >= 1)
\* exists exactly when mixbus strip s exists.
C40_SendIffMixbusStrip ==
    (api.pc = "idle" /\ running /\ ~crashed /\ hazard = {})
        => \A send \in Chans \ {0} :
               g_fxSends[send].mem = "live"
                   <=> g_mixbusStrips[send].mem = "live"

\* C33: while no strip is being removed and no failed addStrip has left a
\* freed strip behind, a slot that the callback of a tier loads and finds
\* non-empty holds a strip whose four ports are registered.
C33_RtSeesBuiltStrips ==
    [][\A mixbus \in Tiers :
          (/\ RtLoad(mixbus)
           /\ rt'[mixbus].pc = "strip"
           /\ api.op # "removeStrip"
           /\ "dangling" \notin hazard)
              => StripPorts(mixbus, rt'[mixbus].chan) \subseteq jackPorts]_vars

\* C31: when the player's callback has returned with count frames popped,
\* sample i of each output port is popped sample i times the volume for
\* i < count and 0 for count <= i < nFrames, and nothing behind the buffer
\* has been written.
C31_OutputScaledThenSilent ==
    jackOut.pc = "done" =>
        /\ ~jackOut.faulted
        /\ \A port \in OutPorts :
             \A i \in DOMAIN jackOut.mem[port] :
                jackOut.mem[port][i] =
                    IF i <= jackOut.count
                    THEN FMul(PoppedFrames(port, jackOut.count)[i],
                              jackOut.g_fLevel)
                    ELSE IF i <= jackOut.nFrames THEN Zero
                    ELSE jackOut.junk

\* C37, as a safety property: while the reader idles in its loop at end of
\* file with loop off (more flag clear, no seek asked for), the ring buffer
\* is empty, no control call is in progress and play_state is Starting or
\* Playing, the last-frame marker equals the read index, so that the next
\* callback leaves play_state Stopped.  (In a state where it does not,
\* neither the reader nor the callback changes any of these variables:
\* play_state never becomes Stopped without a control call.)
C37_DrainedPlaybackStops ==
    (/\ g_threadFile = "running"
     /\ ft.pc \in {"while", "seektest", "moretest", "idletest"}
     /\ g_bFileOpen # 0
     /\ g_bMore = 0
     /\ g_bLoop = 0
     /\ g_nSeek = IDLE
     /\ g_ringBuffer.front = g_ringBuffer.back
     /\ ctl.pc = "idle"
     /\ g_nPlayState \in {STARTING, PLAYING})
        => g_nLastFrame = g_ringBuffer.front

\* C32: the gain a period of a strip starts from (curLevelA, curLevelB) is
\* the gain the period before faded to.
C32_NoGainStep ==
    \A mixbus \in Tiers :
        (/\ rt[mixbus].pc \in {"mute", "reqA", "reqB", "latchLevel",
                               "latchBalance", "frames"}
         /\ period[mixbus].runs > 0)
            => rt[mixbus].cur = period[mixbus].rampEnd

\* C34: in each tier taken by itself one callback in every
\* g_nDampingPeriod + 1 consecutive ones damps the meters: never more than
\* g_nDampingPeriod callbacks in a row without damping, and never two
\* dampings with fewer than g_nDampingPeriod callbacks between them.
C34_DampedOncePerPeriod ==
    \A mixbus \in Tiers :
        /\ period[mixbus].since <= g_nDampingPeriod
        /\ ~period[mixbus].early

\* C35: when the event thread has emitted a meter, the mirror it stored is
\* the linear value the message was made from.
C35_MirrorIsWhatWasSent ==
    (ev.pc = "test" /\ ev.emitted) => ev.stored = ev.sent

\* C36: no step changes the dpm or the hold values of a strip whose DPM is
\* disabled and stays disabled.
C36_DisabledMetersUntouched ==
    [][\A mixbus \in Tiers, chan \in Chans :
          (/\ strips(mixbus)[chan].mem = "live"
           /\ strips(mixbus)[chan].enable_dpm = 0
           /\ (IF mixbus = MIXBUS THEN g_mixbusStrips'
                                  ELSE g_channelStrips')[chan].enable_dpm = 0)
              => \A i \in DOMAIN DpmMeters :
                    (IF mixbus = MIXBUS THEN g_mixbusStrips'
                                        ELSE g_channelStrips')[chan][DpmMeters[i]]
                        = strips(mixbus)[chan][DpmMeters[i]]]_vars

====
